---------------------------- MODULE Spec2Model ----------------------------
(***************************************************************************)
(* Model of the boxing match engine (backend/game_logic.py, BoxingGame).   *)
(*                                                                         *)
(* The match is one BoxingGame object.  Its dict of players is modelled as *)
(* a sequence of Player records in dict (insertion) order.  The event-loop *)
(* clock asyncio.get_event_loop().time() is the variable now, in whole     *)
(* seconds.  A confidence is the rational confidence / ConfDen; on the     *)
(* confidence values used here the IEEE-754 products of the source and the *)
(* exact products truncate to the same integers.                           *)
(***************************************************************************)
EXTENDS Integers, Sequences, FiniteSets, TLC

VARIABLES state, players, current_round, game_start_time, last_update_time,
          now, calls_left, last, tasks, detector, manager,
          probe

gameVars == <<state, players, current_round, game_start_time, last_update_time>>
\* the variables outside the match and its history: the coroutines of the
\* connection handlers, the PoseDetector object, the ConnectionManager object,
\* and the argument and result of the classifier function last applied
auxVars == <<tasks, detector, manager, probe>>
vars == <<state, players, current_round, game_start_time, last_update_time,
          now, calls_left, last, tasks, detector, manager,
          probe>>

(***************************************************************************)
(* Bounds of the model.                                                    *)
(***************************************************************************)
MaxCalls == 5          \* operations called on the match in one behaviour
MaxTime == 541         \* the clock stops advancing here
MaxProbeConf == 30     \* largest confidence numerator of the resolver probe
MaxKnockoutCalls == 6  \* operations in one behaviour of the knockout specification
MaxMatchCalls == 5     \* operations in one behaviour of the two-player specification
MaxLiveCalls == 7      \* operations in one behaviour of the uninterrupted match
MaxHandlers == 2       \* connection handlers sharing the one match
MaxKeypoints == 2      \* entries in one list given to the keypoint normalizer
MaxCoord == 4          \* largest coordinate of an arm point, in units of 1/CoordDen
MaxLoopDelay == 1      \* most the event-loop clock advances inside one process_pose call
MaxPipelineCalls == 4  \* operations on the match in one behaviour of the pose pipeline
MaxCrowdCalls == 6     \* operations in one behaviour of the three-player specification
MaxPauseCalls == 5     \* operations in one behaviour of the paused match
MaxSockets == 3        \* websockets that connect in one behaviour

(***************************************************************************)
(* Program constants.                                                      *)
(***************************************************************************)
round_time == 180
max_rounds == 3
FullHealth == 100
KnockoutBonus == 50
RoundBonus == 25
ConfDen == 20          \* confidences are multiples of 1/20
EffDen == 10           \* block effectiveness factors are tenths
TickStep == round_time \* seconds by which the clock advances in one step
None == -1             \* Python None for the optional timestamps
NoMove == "None"       \* Python None for Player.last_move

MoveType == {"jab", "cross", "hook", "uppercut", "block", "dodge", "guard"}
Punches == {"jab", "cross", "hook", "uppercut"}
Defences == {"block", "dodge", "guard"}

move_damage(m) ==
    CASE m = "jab" -> 10
      [] m = "cross" -> 15
      [] m = "hook" -> 20
      [] m = "uppercut" -> 25
      [] OTHER -> 0

\* numerators of the block effectiveness factors over EffDen
move_effectiveness(m) ==
    CASE m = "jab" -> 3
      [] m = "cross" -> 5
      [] m = "hook" -> 7
      [] m = "uppercut" -> 8
      [] OTHER -> 0

\* Python int() of the rational n / d (d > 0): truncation toward zero
PyInt(n, d) == IF n >= 0 THEN n \div d ELSE -((-n) \div d)

Max(a, b) == IF a >= b THEN a ELSE b

(***************************************************************************)
(* Players.                                                                *)
(***************************************************************************)
Player(id, name) ==
    [id |-> id, name |-> name, health |-> FullHealth, score |-> 0,
     last_move |-> NoMove, last_move_time |-> None,
     is_blocking |-> FALSE, is_dodging |-> FALSE]

Ids(ps) == {ps[i].id : i \in 1..Len(ps)}

\* position of the key id in the dict, 0 when absent
IndexOf(ps, id) ==
    IF id \in Ids(ps) THEN CHOOSE i \in 1..Len(ps) : ps[i].id = id ELSE 0

RemoveAt(ps, k) == [i \in 1..(Len(ps) - 1) |-> IF i < k THEN ps[i] ELSE ps[i + 1]]

(***************************************************************************)
(* Combat resolver.                                                        *)
(***************************************************************************)
\* get_opponent taking the first key of the dict, the actor's own included
get_opponent_first_key(ps, player_id) ==
    IF Len(ps) = 1 THEN 0 ELSE 1

\* get_opponent taking the last key of the dict other than player_id
get_opponent_last_other(ps, player_id) ==
    IF Len(ps) = 1 THEN 0
    ELSE LET others == {i \in 1..Len(ps) : ps[i].id # player_id}
         IN IF others = {} THEN 0
            ELSE CHOOSE i \in others : \A j \in others : i >= j

\* the first key of the dict other than player_id, 0 when there is none or
\* when that key is the empty string (`if opponent_id`)
get_opponent(ps, player_id) ==
    IF Len(ps) = 1 THEN 0
    ELSE LET others == {i \in 1..Len(ps) : ps[i].id # player_id}
         IN IF others = {} THEN 0
            ELSE LET first == CHOOSE i \in others : \A j \in others : i <= j
                 IN IF ps[first].id = "" THEN 0 ELSE first

\* calculate_damage rounding once, after the block factor, instead of twice
calculate_damage_rounded_once(move_type, confidence, opponent) ==
    LET base_damage == move_damage(move_type)
        d1 == IF opponent.is_blocking
              THEN PyInt(base_damage * confidence * move_effectiveness(move_type),
                         ConfDen * EffDen)
              ELSE PyInt(base_damage * confidence, ConfDen)
        d2 == IF opponent.is_dodging THEN 0 ELSE d1
    IN Max(0, d2)

\* calculate_damage testing the dodge only when the opponent is not blocking
calculate_damage_dodge_elif(move_type, confidence, opponent) ==
    LET base_damage == move_damage(move_type)
        d0 == PyInt(base_damage * confidence, ConfDen)
    IN Max(0, IF opponent.is_blocking
              THEN PyInt(d0 * move_effectiveness(move_type), EffDen)
              ELSE IF opponent.is_dodging THEN 0 ELSE d0)

calculate_damage(move_type, confidence, opponent) ==
    LET base_damage == move_damage(move_type)
        d0 == PyInt(base_damage * confidence, ConfDen)
        d1 == IF opponent.is_blocking
              THEN PyInt(d0 * move_effectiveness(move_type), EffDen)
              ELSE d0
        d2 == IF opponent.is_dodging THEN 0 ELSE d1
    IN Max(0, d2)

\* apply_damage without the clamp at 0
apply_damage_unclamped(player, damage) ==
    [player EXCEPT !.health = player.health - damage]

apply_damage(player, damage) ==
    [player EXCEPT !.health = Max(0, player.health - damage)]

\* process_single_action whose DODGE branch leaves is_blocking as it is
process_single_action_dodge_keeps_block(ps, action) ==
    IF action.player_id \notin Ids(ps)
    THEN [players |-> ps, raised |-> FALSE]
    ELSE IF action.move_type \notin MoveType
    THEN [players |-> ps, raised |-> TRUE]
    ELSE
      LET me == IndexOf(ps, action.player_id)
          p1 == [ps EXCEPT ![me].last_move = action.move_type,
                           ![me].last_move_time = action.timestamp]
      IN IF action.move_type = "block"
         THEN [players |-> [p1 EXCEPT ![me].is_blocking = TRUE,
                                      ![me].is_dodging = FALSE],
               raised |-> FALSE]
         ELSE IF action.move_type = "dodge"
         THEN [players |-> [p1 EXCEPT ![me].is_dodging = TRUE],
               raised |-> FALSE]
         ELSE IF action.move_type = "guard"
         THEN [players |-> [p1 EXCEPT ![me].is_blocking = FALSE,
                                      ![me].is_dodging = FALSE],
               raised |-> FALSE]
         ELSE
           LET opp == get_opponent(p1, action.player_id)
           IN IF opp = 0
              THEN [players |-> p1, raised |-> FALSE]
              ELSE
                LET damage == calculate_damage(action.move_type,
                                               action.confidence, p1[opp])
                    p2 == [p1 EXCEPT ![opp] = apply_damage(p1[opp], damage)]
                IN [players |-> IF damage > 0
                                THEN [p2 EXCEPT ![me].score = @ + damage]
                                ELSE p2,
                    raised |-> FALSE]

\* process_single_action raising on an actor that is not registered
process_single_action_unknown_raises(ps, action) ==
    IF action.player_id \notin Ids(ps)
    THEN [players |-> ps, raised |-> TRUE]
    ELSE IF action.move_type \notin MoveType
    THEN [players |-> ps, raised |-> TRUE]
    ELSE
      LET me == IndexOf(ps, action.player_id)
          p1 == [ps EXCEPT ![me].last_move = action.move_type,
                           ![me].last_move_time = action.timestamp]
      IN IF action.move_type = "block"
         THEN [players |-> [p1 EXCEPT ![me].is_blocking = TRUE,
                                      ![me].is_dodging = FALSE],
               raised |-> FALSE]
         ELSE IF action.move_type = "dodge"
         THEN [players |-> [p1 EXCEPT ![me].is_dodging = TRUE,
                                      ![me].is_blocking = FALSE],
               raised |-> FALSE]
         ELSE IF action.move_type = "guard"
         THEN [players |-> [p1 EXCEPT ![me].is_blocking = FALSE,
                                      ![me].is_dodging = FALSE],
               raised |-> FALSE]
         ELSE
           LET opp == get_opponent(p1, action.player_id)
           IN IF opp = 0
              THEN [players |-> p1, raised |-> FALSE]
              ELSE
                LET damage == calculate_damage(action.move_type,
                                               action.confidence, p1[opp])
                    p2 == [p1 EXCEPT ![opp] = apply_damage(p1[opp], damage)]
                IN [players |-> IF damage > 0
                                THEN [p2 EXCEPT ![me].score = @ + damage]
                                ELSE p2,
                    raised |-> FALSE]

\* process_single_action scoring the health taken instead of the damage
process_single_action_scores_health_taken(ps, action) ==
    IF action.player_id \notin Ids(ps)
    THEN [players |-> ps, raised |-> FALSE]
    ELSE IF action.move_type \notin MoveType
    THEN [players |-> ps, raised |-> TRUE]
    ELSE
      LET me == IndexOf(ps, action.player_id)
          p1 == [ps EXCEPT ![me].last_move = action.move_type,
                           ![me].last_move_time = action.timestamp]
      IN IF action.move_type = "block"
         THEN [players |-> [p1 EXCEPT ![me].is_blocking = TRUE,
                                      ![me].is_dodging = FALSE],
               raised |-> FALSE]
         ELSE IF action.move_type = "dodge"
         THEN [players |-> [p1 EXCEPT ![me].is_dodging = TRUE,
                                      ![me].is_blocking = FALSE],
               raised |-> FALSE]
         ELSE IF action.move_type = "guard"
         THEN [players |-> [p1 EXCEPT ![me].is_blocking = FALSE,
                                      ![me].is_dodging = FALSE],
               raised |-> FALSE]
         ELSE
           LET opp == get_opponent(p1, action.player_id)
           IN IF opp = 0
              THEN [players |-> p1, raised |-> FALSE]
              ELSE
                LET damage == calculate_damage(action.move_type,
                                               action.confidence, p1[opp])
                    p2 == [p1 EXCEPT ![opp] = apply_damage(p1[opp], damage)]
                IN [players |-> IF damage > 0
                                THEN [p2 EXCEPT ![me].score =
                                                 @ + p1[opp].health - p2[opp].health]
                                ELSE p2,
                    raised |-> FALSE]

\* one GameAction applied to the dict of players; raised is the ValueError
\* of MoveType(action.move_type) on a string that is no move value
process_single_action(ps, action) ==
    IF action.player_id \notin Ids(ps)
    THEN [players |-> ps, raised |-> FALSE]
    ELSE IF action.move_type \notin MoveType
    THEN [players |-> ps, raised |-> TRUE]
    ELSE
      LET me == IndexOf(ps, action.player_id)
          p1 == [ps EXCEPT ![me].last_move = action.move_type,
                           ![me].last_move_time = action.timestamp]
      IN IF action.move_type = "block"
         THEN [players |-> [p1 EXCEPT ![me].is_blocking = TRUE,
                                      ![me].is_dodging = FALSE],
               raised |-> FALSE]
         ELSE IF action.move_type = "dodge"
         THEN [players |-> [p1 EXCEPT ![me].is_dodging = TRUE,
                                      ![me].is_blocking = FALSE],
               raised |-> FALSE]
         ELSE IF action.move_type = "guard"
         THEN [players |-> [p1 EXCEPT ![me].is_blocking = FALSE,
                                      ![me].is_dodging = FALSE],
               raised |-> FALSE]
         ELSE
           LET opp == get_opponent(p1, action.player_id)
           IN IF opp = 0
              THEN [players |-> p1, raised |-> FALSE]
              ELSE
                LET damage == calculate_damage(action.move_type,
                                               action.confidence, p1[opp])
                    p2 == [p1 EXCEPT ![opp] = apply_damage(p1[opp], damage)]
                IN [players |-> IF damage > 0
                                THEN [p2 EXCEPT ![me].score = @ + damage]
                                ELSE p2,
                    raised |-> FALSE]

(***************************************************************************)
(* Batch items: the dicts handed to process_actions.  keys is the set of  *)
(* keys the dict has; a field whose key is absent is never read.           *)
(***************************************************************************)
Item(keys, player_id, move, confidence) ==
    [keys |-> keys, player_id |-> player_id, move |-> move,
     confidence |-> confidence, timestamp |-> None]

\* GameAction giving an item without player_id to "player2"
GameAction_default_player2(item, current_time) ==
    [player_id |-> IF "player_id" \in item.keys THEN item.player_id
                   ELSE "player2",
     move_type |-> item.move,
     confidence |-> item.confidence,
     timestamp |-> IF "timestamp" \in item.keys THEN item.timestamp
                   ELSE current_time]

GameAction(item, current_time) ==
    [player_id |-> IF "player_id" \in item.keys THEN item.player_id
                   ELSE "player1",
     move_type |-> item.move,
     confidence |-> item.confidence,
     timestamp |-> IF "timestamp" \in item.keys THEN item.timestamp
                   ELSE current_time]

\* the loop of process_actions from item i on; it stops at the first raise
RECURSIVE run_actions(_, _, _, _)
run_actions(ps, actions, i, current_time) ==
    IF i > Len(actions) THEN [players |-> ps, raised |-> FALSE]
    ELSE IF ~ ({"move", "confidence"} \subseteq actions[i].keys)
    THEN run_actions(ps, actions, i + 1, current_time)
    ELSE LET r == process_single_action(ps, GameAction(actions[i], current_time))
         IN IF r.raised THEN r
            ELSE run_actions(r.players, actions, i + 1, current_time)

Reverse(q) == [i \in 1..Len(q) |-> q[Len(q) + 1 - i]]

\* the loop of process_actions taking the items last to first
apply_batch_reversed(ps, actions, current_time) ==
    run_actions(ps, Reverse(actions), 1, current_time)

\* for action_data in actions: ...
apply_batch(ps, actions, current_time) == run_actions(ps, actions, 1, current_time)

(***************************************************************************)
(* End-of-tick checks.  G is the record of the match fields they touch.    *)
(***************************************************************************)
Match(st, ps, rnd, gst) ==
    [state |-> st, players |-> ps, current_round |-> rnd,
     game_start_time |-> gst]

handle_knockout(G, ko) ==
    LET ps == G.players
        others == {i \in 1..Len(ps) : ps[i].id # ps[ko].id}
        winner == IF others = {} THEN 0
                  ELSE CHOOSE i \in others : \A j \in others : i <= j
    IN [G EXCEPT !.state = "finished",
                 !.players = IF winner = 0 THEN ps
                             ELSE [ps EXCEPT ![winner].score = @ + KnockoutBonus]]

\* the sort taken by (score, health) instead of (health, score)
RanksBefore_score_first(p, q) ==
    \/ p.score > q.score
    \/ p.score = q.score /\ p.health > q.health

\* p ranks strictly before q in the sort by (health, score), reverse=True
RanksBefore(p, q) ==
    \/ p.health > q.health
    \/ p.health = q.health /\ p.score > q.score

\* players_list[0] after the stable sort: the earliest maximal element
RoundWinner(ps) ==
    CHOOSE i \in 1..Len(ps) :
        /\ \A j \in 1..Len(ps) : ~ RanksBefore(ps[j], ps[i])
        /\ \A j \in 1..(i - 1) : RanksBefore(ps[i], ps[j])

\* handle_round_end ending as many rounds as round times have elapsed
handle_round_end_catches_up(G, t) ==
    LET ps == G.players
        p1 == IF Len(ps) >= 2
              THEN [ps EXCEPT ![RoundWinner(ps)].score = @ + RoundBonus]
              ELSE ps
        rnd == G.current_round + (t - G.game_start_time) \div round_time
    IN IF rnd > max_rounds
       THEN [G EXCEPT !.players = p1, !.current_round = rnd,
                      !.state = "finished"]
       ELSE [G EXCEPT !.current_round = rnd,
                      !.game_start_time = t,
                      !.players = [i \in 1..Len(p1) |->
                                     [p1[i] EXCEPT !.health = FullHealth,
                                                   !.is_blocking = FALSE,
                                                   !.is_dodging = FALSE]]]

\* handle_round_end starting the next round without restarting its clock
handle_round_end_keeps_clock(G, t) ==
    LET ps == G.players
        p1 == IF Len(ps) >= 2
              THEN [ps EXCEPT ![RoundWinner(ps)].score = @ + RoundBonus]
              ELSE ps
        rnd == G.current_round + 1
    IN IF rnd > max_rounds
       THEN [G EXCEPT !.players = p1, !.current_round = rnd,
                      !.state = "finished"]
       ELSE [G EXCEPT !.current_round = rnd,
                      !.players = [i \in 1..Len(p1) |->
                                     [p1[i] EXCEPT !.health = FullHealth,
                                                   !.is_blocking = FALSE,
                                                   !.is_dodging = FALSE]]]

\* handle_round_end clearing the scores with the health for the next round
handle_round_end_clears_score(G, t) ==
    LET ps == G.players
        p1 == IF Len(ps) >= 2
              THEN [ps EXCEPT ![RoundWinner(ps)].score = @ + RoundBonus]
              ELSE ps
        rnd == G.current_round + 1
    IN IF rnd > max_rounds
       THEN [G EXCEPT !.players = p1, !.current_round = rnd,
                      !.state = "finished"]
       ELSE [G EXCEPT !.current_round = rnd,
                      !.game_start_time = t,
                      !.players = [i \in 1..Len(p1) |->
                                     [p1[i] EXCEPT !.health = FullHealth,
                                                   !.score = 0,
                                                   !.is_blocking = FALSE,
                                                   !.is_dodging = FALSE]]]

handle_round_end(G, t) ==
    LET ps == G.players
        p1 == IF Len(ps) >= 2
              THEN [ps EXCEPT ![RoundWinner(ps)].score = @ + RoundBonus]
              ELSE ps
        rnd == G.current_round + 1
    IN IF rnd > max_rounds
       THEN [G EXCEPT !.players = p1, !.current_round = rnd,
                      !.state = "finished"]
       ELSE [G EXCEPT !.current_round = rnd,
                      !.game_start_time = t,
                      !.players = [i \in 1..Len(p1) |->
                                     [p1[i] EXCEPT !.health = FullHealth,
                                                   !.is_blocking = FALSE,
                                                   !.is_dodging = FALSE]]]

\* check_game_conditions without the return after the knockout
check_game_conditions_fallthrough(G, t) ==
    LET ps == G.players
        down == {i \in 1..Len(ps) : ps[i].health <= 0}
        G1 == IF down # {}
              THEN handle_knockout(G, CHOOSE i \in down : \A j \in down : i <= j)
              ELSE G
    IN IF G1.game_start_time # None /\ G1.game_start_time # 0
          /\ t - G1.game_start_time >= round_time
       THEN handle_round_end(G1, t)
       ELSE G1

check_game_conditions(G, t) ==
    LET ps == G.players
        down == {i \in 1..Len(ps) : ps[i].health <= 0}
    IN IF down # {}
       THEN handle_knockout(G, CHOOSE i \in down : \A j \in down : i <= j)
       ELSE IF G.game_start_time # None /\ G.game_start_time # 0
               /\ t - G.game_start_time >= round_time
       THEN handle_round_end(G, t)
       ELSE G

(***************************************************************************)
(* Inputs.                                                                 *)
(***************************************************************************)
PlayerIds == {"player1", "player2", "player3"}
NameOf(id) == IF id = "player1" THEN "Ali" ELSE IF id = "player2" THEN "Bo" ELSE "Cy"

FullKeys == {"player_id", "move", "confidence"}

\* the items the batches of the lifecycle specification are made of
Uppercut1 == Item(FullKeys, "player1", "uppercut", 80)   \* confidence 4.0
Uppercut2 == Item(FullKeys, "player2", "uppercut", 80)
Hook1 == Item(FullKeys, "player1", "hook", 20)           \* confidence 1.0
Hook2 == Item(FullKeys, "player2", "hook", 20)
NegJab1 == Item(FullKeys, "player1", "jab", -10)         \* confidence -0.5
Kick1 == Item(FullKeys, "player1", "kick", 20)           \* no move value
Block2 == Item(FullKeys, "player2", "block", 20)
Dodge2 == Item(FullKeys, "player2", "dodge", 20)
Guard2 == Item(FullKeys, "player2", "guard", 20)

Batches ==
    { <<>>, <<Uppercut1>>, <<Uppercut2>>, <<Uppercut1, Kick1>>,
      <<Uppercut1, Hook2>>, <<NegJab1>>, <<Hook2>>,
      <<Block2, Hook1>>, <<Hook1, Block2>>,
      <<Block2>>, <<Dodge2>>, <<Guard2>> }

\* the call just made: operation, whether it raised, the batch it was given,
\* (resolver probe only) the value calculate_damage returned, and (add_player
\* only) the id it was given
Called(op, raised, batch) ==
    [op |-> op, raised |-> raised, batch |-> batch, damage |-> 0,
     player_id |-> ""]

\* no handler is running; the PoseDetector is as constructed; no classifier
\* function has been applied
NoTasks == <<>>
NewPoseDetector == [is_initialized |-> FALSE, pose |-> None]
\* a ConnectionManager as constructed: the list active_connections and the
\* keys of the dict connection_data
NewConnectionManager == [active_connections |-> <<>>, connection_data |-> {}]
NoProbe == [fn |-> "none"]

AuxIdle ==
    /\ tasks = NoTasks
    /\ detector = NewPoseDetector
    /\ manager = NewConnectionManager
    /\ probe = NoProbe

(***************************************************************************)
(* The state after construction.                                           *)
(***************************************************************************)
Init ==
    /\ state = "waiting"
    /\ players = <<>>
    /\ current_round = 1
    /\ game_start_time = None
    /\ last_update_time = None
    /\ now = 1
    /\ calls_left = MaxCalls
    /\ last = Called("init", FALSE, <<>>)
    /\ AuxIdle

(***************************************************************************)
(* Operations of BoxingGame.                                               *)
(***************************************************************************)
\* add_player keeping the record of an id that is already registered
add_player_keeps_registered(player_id, name) ==
    /\ calls_left > 0
    /\ UNCHANGED auxVars
    /\ players' = IF player_id \in Ids(players)
                  THEN players
                  ELSE Append(players, Player(player_id, name))
    /\ calls_left' = calls_left - 1
    /\ last' = [Called("add_player", FALSE, <<>>) EXCEPT !.player_id = player_id]
    /\ UNCHANGED <<state, current_round, game_start_time, last_update_time, now>>

add_player(player_id, name) ==
    /\ calls_left > 0
    /\ UNCHANGED auxVars
    /\ players' = IF player_id \in Ids(players)
                  THEN [players EXCEPT ![IndexOf(players, player_id)] =
                                          Player(player_id, name)]
                  ELSE Append(players, Player(player_id, name))
    /\ calls_left' = calls_left - 1
    /\ last' = [Called("add_player", FALSE, <<>>) EXCEPT !.player_id = player_id]
    /\ UNCHANGED <<state, current_round, game_start_time, last_update_time, now>>

remove_player(player_id) ==
    /\ calls_left > 0
    /\ UNCHANGED auxVars
    /\ players' = IF player_id \in Ids(players)
                  THEN RemoveAt(players, IndexOf(players, player_id))
                  ELSE players
    /\ calls_left' = calls_left - 1
    /\ last' = Called("remove_player", FALSE, <<>>)
    /\ UNCHANGED <<state, current_round, game_start_time, last_update_time, now>>

\* start_game setting the phase and the clock before it counts the players
start_game_marks_first ==
    /\ calls_left > 0
    /\ UNCHANGED auxVars
    /\ calls_left' = calls_left - 1
    /\ state' = "playing"
    /\ game_start_time' = now
    /\ IF Len(players) < 1
       THEN /\ last' = Called("start_game", TRUE, <<>>)
            /\ UNCHANGED <<players, current_round, last_update_time, now>>
       ELSE /\ current_round' = 1
            /\ players' = [i \in 1..Len(players) |->
                             [players[i] EXCEPT !.health = FullHealth,
                                                !.score = 0,
                                                !.last_move = NoMove,
                                                !.is_blocking = FALSE,
                                                !.is_dodging = FALSE]]
            /\ last' = Called("start_game", FALSE, <<>>)
            /\ UNCHANGED <<last_update_time, now>>

\* start_game whose reset loop leaves the scores as they are
start_game_keeps_score ==
    /\ calls_left > 0
    /\ UNCHANGED auxVars
    /\ calls_left' = calls_left - 1
    /\ IF Len(players) < 1
       THEN /\ last' = Called("start_game", TRUE, <<>>)
            /\ UNCHANGED <<gameVars, now>>
       ELSE /\ state' = "playing"
            /\ game_start_time' = now
            /\ current_round' = 1
            /\ players' = [i \in 1..Len(players) |->
                             [players[i] EXCEPT !.health = FullHealth,
                                                !.last_move = NoMove,
                                                !.is_blocking = FALSE,
                                                !.is_dodging = FALSE]]
            /\ last' = Called("start_game", FALSE, <<>>)
            /\ UNCHANGED <<last_update_time, now>>

start_game ==
    /\ calls_left > 0
    /\ UNCHANGED auxVars
    /\ calls_left' = calls_left - 1
    /\ IF Len(players) < 1
       THEN /\ last' = Called("start_game", TRUE, <<>>)
            /\ UNCHANGED <<gameVars, now>>
       ELSE /\ state' = "playing"
            /\ game_start_time' = now
            /\ current_round' = 1
            /\ players' = [i \in 1..Len(players) |->
                             [players[i] EXCEPT !.health = FullHealth,
                                                !.score = 0,
                                                !.last_move = NoMove,
                                                !.is_blocking = FALSE,
                                                !.is_dodging = FALSE]]
            /\ last' = Called("start_game", FALSE, <<>>)
            /\ UNCHANGED <<last_update_time, now>>

\* pause_game pausing only a match that is being played
pause_game_only_playing ==
    /\ calls_left > 0
    /\ UNCHANGED auxVars
    /\ calls_left' = calls_left - 1
    /\ state' = IF state = "playing" THEN "paused" ELSE state
    /\ last' = Called("pause_game", FALSE, <<>>)
    /\ UNCHANGED <<players, current_round, game_start_time, last_update_time, now>>

pause_game ==
    /\ calls_left > 0
    /\ UNCHANGED auxVars
    /\ calls_left' = calls_left - 1
    /\ state' = "paused"
    /\ last' = Called("pause_game", FALSE, <<>>)
    /\ UNCHANGED <<players, current_round, game_start_time, last_update_time, now>>

\* resume_game without its test of the phase
resume_game_unguarded ==
    /\ calls_left > 0
    /\ UNCHANGED auxVars
    /\ calls_left' = calls_left - 1
    /\ state' = "playing"
    /\ last' = Called("resume_game", FALSE, <<>>)
    /\ UNCHANGED <<players, current_round, game_start_time, last_update_time, now>>

resume_game ==
    /\ calls_left > 0
    /\ UNCHANGED auxVars
    /\ calls_left' = calls_left - 1
    /\ state' = IF state = "paused" THEN "playing" ELSE state
    /\ last' = Called("resume_game", FALSE, <<>>)
    /\ UNCHANGED <<players, current_round, game_start_time, last_update_time, now>>

end_game ==
    /\ calls_left > 0
    /\ UNCHANGED auxVars
    /\ calls_left' = calls_left - 1
    /\ state' = "finished"
    /\ last' = Called("end_game", FALSE, <<>>)
    /\ UNCHANGED <<players, current_round, game_start_time, last_update_time, now>>

reset ==
    /\ calls_left > 0
    /\ UNCHANGED auxVars
    /\ calls_left' = calls_left - 1
    /\ state' = "waiting"
    /\ players' = <<>>
    /\ current_round' = 1
    /\ game_start_time' = None
    /\ last_update_time' = None
    /\ last' = Called("reset", FALSE, <<>>)
    /\ UNCHANGED now

\* process_actions past its phase test: the loop over the items, then the
\* end-of-tick checks unless an item raised
process_playing(actions) ==
    LET current_time == now
        r == apply_batch(players, actions, current_time)
        G == check_game_conditions(
                Match(state, r.players, current_round, game_start_time), now)
    IN /\ last_update_time' = current_time
       /\ last' = Called("process_actions", r.raised, actions)
       /\ IF r.raised
          THEN /\ players' = r.players
               /\ UNCHANGED <<state, current_round, game_start_time>>
          ELSE /\ state' = G.state
               /\ players' = G.players
               /\ current_round' = G.current_round
               /\ game_start_time' = G.game_start_time
       /\ UNCHANGED now

\* process_actions recording the update time before it tests the phase
process_actions_stamps_first(actions) ==
    /\ calls_left > 0
    /\ UNCHANGED auxVars
    /\ calls_left' = calls_left - 1
    /\ IF state # "playing"
       THEN /\ last_update_time' = now
            /\ last' = Called("process_actions", FALSE, actions)
            /\ UNCHANGED <<state, players, current_round, game_start_time, now>>
       ELSE process_playing(actions)

process_actions(actions) ==
    /\ calls_left > 0
    /\ UNCHANGED auxVars
    /\ calls_left' = calls_left - 1
    /\ IF state # "playing"
       THEN /\ last' = Called("process_actions", FALSE, actions)
            /\ UNCHANGED <<gameVars, now>>
       ELSE process_playing(actions)

\* the event-loop clock advances between calls
Tick ==
    /\ now + TickStep <= MaxTime
    /\ UNCHANGED auxVars
    /\ now' = now + TickStep
    /\ UNCHANGED <<gameVars, calls_left, last>>

Next ==
    \/ \E id \in PlayerIds : add_player(id, NameOf(id))
    \/ \E id \in PlayerIds : remove_player(id)
    \/ start_game
    \/ pause_game
    \/ resume_game
    \/ end_game
    \/ reset
    \/ \E b \in Batches : process_actions(b)
    \/ Tick

Spec == Init /\ [][Next]_vars

(***************************************************************************)
(* The combat resolver on its own: one GameAction applied to a match of    *)
(* two players, the actor player1 and the opponent player2, for every      *)
(* punch and defence, every confidence of the grid and every combination   *)
(* of the opponent's flags.                                                *)
(***************************************************************************)
MaxProbes == 1
ProbeConfs == (-10)..MaxProbeConf
ProbeHealths == {FullHealth, 10}

ProbeItems ==
    {Item(FullKeys, "player1", m, c) : m \in Punches, c \in ProbeConfs}
      \cup {Item(FullKeys, "player1", m, ConfDen) : m \in Defences}

InitResolve ==
    /\ state = "playing"
    /\ \E h \in ProbeHealths, b \in BOOLEAN, d \in BOOLEAN :
          players = << Player("player1", NameOf("player1")),
                       [Player("player2", NameOf("player2")) EXCEPT
                           !.health = h, !.is_blocking = b, !.is_dodging = d] >>
    /\ current_round = 1
    /\ game_start_time = 1
    /\ last_update_time = None
    /\ now = 1
    /\ calls_left = MaxProbes
    /\ last = Called("init", FALSE, <<>>)
    /\ AuxIdle

resolve(item) ==
    /\ calls_left > 0
    /\ UNCHANGED auxVars
    /\ calls_left' = calls_left - 1
    /\ LET action == GameAction(item, now)
           r == process_single_action(players, action)
       IN /\ players' = r.players
          /\ last' = [Called("process_single_action", r.raised, <<item>>)
                        EXCEPT !.damage =
                          IF action.move_type \in Punches
                          THEN calculate_damage(action.move_type,
                                                action.confidence, players[2])
                          ELSE 0]
    /\ UNCHANGED <<state, current_round, game_start_time, last_update_time, now>>

NextResolve == \E item \in ProbeItems : resolve(item)

SpecResolve == InitResolve /\ [][NextResolve]_vars

(***************************************************************************)
(* The match driven by knockout blows only: every operation, with batches  *)
(* that knock a participant out, alone or followed by an item whose move   *)
(* is no move value.                                                       *)
(***************************************************************************)
KnockoutBatches == { <<>>, <<Uppercut1>>, <<Uppercut2>>, <<Uppercut1, Kick1>> }

InitKnockout ==
    /\ state = "waiting"
    /\ players = <<>>
    /\ current_round = 1
    /\ game_start_time = None
    /\ last_update_time = None
    /\ now = 1
    /\ calls_left = MaxKnockoutCalls
    /\ last = Called("init", FALSE, <<>>)
    /\ AuxIdle

NextKnockout ==
    \/ \E id \in PlayerIds : add_player(id, NameOf(id))
    \/ \E id \in PlayerIds : remove_player(id)
    \/ start_game
    \/ pause_game
    \/ resume_game
    \/ end_game
    \/ reset
    \/ \E b \in KnockoutBatches : process_actions(b)
    \/ Tick

SpecKnockout == InitKnockout /\ [][NextKnockout]_vars

(***************************************************************************)
(* The match of at most two registered players, player1 and player2, with  *)
(* every operation, batches that hit, miss, dodge and knock out, and items *)
(* of an actor that is never registered.                                   *)
(***************************************************************************)
MatchIds == {"player1", "player2"}

GhostUppercut == Item(FullKeys, "ghost", "uppercut", 80)

MatchBatches ==
    { <<>>, <<Hook1>>, <<Hook2>>, <<NegJab1>>, <<Uppercut1>>, <<Dodge2>>,
      <<GhostUppercut, Hook1>> }

InitMatch ==
    /\ state = "waiting"
    /\ players = <<>>
    /\ current_round = 1
    /\ game_start_time = None
    /\ last_update_time = None
    /\ now = 1
    /\ calls_left = MaxMatchCalls
    /\ last = Called("init", FALSE, <<>>)
    /\ AuxIdle

NextMatch ==
    \/ \E id \in MatchIds : add_player(id, NameOf(id))
    \/ \E id \in MatchIds : remove_player(id)
    \/ start_game
    \/ pause_game
    \/ resume_game
    \/ end_game
    \/ reset
    \/ \E b \in MatchBatches : process_actions(b)
    \/ Tick

SpecMatch == InitMatch /\ [][NextMatch]_vars

(***************************************************************************)
(* The combat resolver given move strings in several spellings: the seven  *)
(* values of MoveType, and each of them in upper case and capitalised.     *)
(***************************************************************************)
UpperSpellings == {"JAB", "CROSS", "HOOK", "UPPERCUT", "BLOCK", "DODGE", "GUARD"}
TitleSpellings == {"Jab", "Cross", "Hook", "Uppercut", "Block", "Dodge", "Guard"}

CaseItems ==
    { Item(FullKeys, "player1", m, ConfDen) :
         m \in MoveType \cup UpperSpellings \cup TitleSpellings }

NextCase == \E item \in CaseItems : resolve(item)

SpecCase == InitResolve /\ [][NextCase]_vars

(***************************************************************************)
(* The uninterrupted match: players are registered and the match is        *)
(* started once; from then on only process_actions is called, one batch at *)
(* each reading of the clock, and the clock advances after each batch.     *)
(* Nothing else (start, pause, end, reset, registration, removal) is       *)
(* called once the match is started.                                       *)
(***************************************************************************)
LiveBatches == { <<>>, <<Hook1>>, <<Uppercut1>> }

InitLive ==
    /\ state = "waiting"
    /\ players = <<>>
    /\ current_round = 1
    /\ game_start_time = None
    /\ last_update_time = None
    /\ now = 1
    /\ calls_left = MaxLiveCalls
    /\ last = Called("init", FALSE, <<>>)
    /\ AuxIdle

add_player_waiting(player_id) ==
    /\ state = "waiting"
    /\ add_player(player_id, NameOf(player_id))

start_game_waiting ==
    /\ state = "waiting"
    /\ start_game

\* the batch of this reading of the clock
process_actions_live(actions) ==
    /\ state = "playing"
    /\ last_update_time # now
    /\ process_actions(actions)

\* the clock advances once the batch of this reading is processed
TickLive ==
    /\ state = "playing"
    /\ last_update_time = now
    /\ Tick

NextLive ==
    \/ \E id \in MatchIds : add_player_waiting(id)
    \/ start_game_waiting
    \/ \E b \in LiveBatches : process_actions_live(b)
    \/ TickLive

\* the clock keeps advancing and process_actions keeps being called
SpecLive ==
    /\ InitLive
    /\ [][NextLive]_vars
    /\ WF_vars(TickLive)
    /\ WF_vars(\E b \in LiveBatches : process_actions_live(b))

\* the same match fed by a client every batch of which ends in a move string
\* that is no move value
LiveUnknownBatches == { <<Kick1>>, <<Hook1, Kick1>>, <<Uppercut1, Kick1>> }

NextLiveUnknown ==
    \/ \E id \in MatchIds : add_player_waiting(id)
    \/ start_game_waiting
    \/ \E b \in LiveUnknownBatches : process_actions_live(b)
    \/ TickLive

SpecLiveUnknown ==
    /\ InitLive
    /\ [][NextLiveUnknown]_vars
    /\ WF_vars(TickLive)
    /\ WF_vars(\E b \in LiveUnknownBatches : process_actions_live(b))

(***************************************************************************)
(* Connection handlers on the event loop.  Each handler of main.py awaits  *)
(* a message and then awaits game_logic.process_actions on the one shared  *)
(* BoxingGame.  A handler's task is the coroutine of that call: its batch, *)
(* its position (pc), the index i of the next item, the current_time it    *)
(* read, and whether it raised.  The event loop runs one task at a time    *)
(* and switches tasks only where the running coroutine suspends.           *)
(***************************************************************************)
Handlers == 1..MaxHandlers

IdleTask == [pc |-> "idle", batch |-> <<>>, i |-> 1, current_time |-> None,
             raised |-> FALSE]

\* the fields of the BoxingGame a coroutine works on
Fields(st, ps, rnd, gst, lut) ==
    [state |-> st, players |-> ps, current_round |-> rnd,
     game_start_time |-> gst, last_update_time |-> lut]

\* the awaits of process_actions giving control back to the event loop
Suspends_after_each_action(point) == point = "process_single_action"

\* whether an await of process_actions gives control back to the event loop:
\* _process_single_action, _check_game_conditions, _handle_knockout and
\* _handle_round_end contain no await of a future, a sleep or I/O, so
\* awaiting them runs them to their end inside the same task
Suspends(point) == FALSE

\* process_actions run from the position of task t until it suspends or ends
RECURSIVE run_coroutine(_, _, _)
run_coroutine(M, t, clock) ==
    IF t.pc = "start"
    THEN IF M.state # "playing"
         THEN [M |-> M, t |-> [t EXCEPT !.pc = "done"]]
         ELSE run_coroutine([M EXCEPT !.last_update_time = clock],
                            [t EXCEPT !.pc = "loop", !.i = 1,
                                      !.current_time = clock], clock)
    ELSE IF t.pc = "loop"
    THEN IF t.i > Len(t.batch)
         THEN run_coroutine(M, [t EXCEPT !.pc = "check"], clock)
         ELSE IF ~ ({"move", "confidence"} \subseteq t.batch[t.i].keys)
         THEN run_coroutine(M, [t EXCEPT !.i = @ + 1], clock)
         ELSE LET r == process_single_action(
                          M.players, GameAction(t.batch[t.i], t.current_time))
                  M1 == [M EXCEPT !.players = r.players]
                  t1 == [t EXCEPT !.i = @ + 1]
              IN IF r.raised
                 THEN [M |-> M1, t |-> [t EXCEPT !.pc = "done", !.raised = TRUE]]
                 ELSE IF Suspends("process_single_action")
                 THEN [M |-> M1, t |-> t1]
                 ELSE run_coroutine(M1, t1, clock)
    ELSE IF t.pc = "check"
    THEN LET G == check_game_conditions(
                     Match(M.state, M.players, M.current_round,
                           M.game_start_time), clock)
             M1 == [M EXCEPT !.state = G.state, !.players = G.players,
                             !.current_round = G.current_round,
                             !.game_start_time = G.game_start_time]
         IN [M |-> M1, t |-> [t EXCEPT !.pc = "done"]]
    ELSE [M |-> M, t |-> t]

ConcurrentBatches ==
    { <<>>, <<Hook1>>, <<Guard2>>, <<Block2, Hook1>>, <<Uppercut1, Hook2>> }

\* a match of player1 and player2 just started, every handler awaiting a
\* message
InitConcurrent ==
    /\ state = "playing"
    /\ players = << Player("player1", NameOf("player1")),
                    Player("player2", NameOf("player2")) >>
    /\ current_round = 1
    /\ game_start_time = 1
    /\ last_update_time = None
    /\ now = 1
    /\ calls_left = 0
    /\ last = Called("start_game", FALSE, <<>>)
    /\ tasks = [h \in Handlers |-> IdleTask]
    /\ detector = NewPoseDetector
    /\ manager = NewConnectionManager
    /\ probe = NoProbe

\* handler h receives a message and calls process_actions(actions); its
\* coroutine is scheduled
receive_text(h, actions) ==
    /\ tasks[h].pc = "idle"
    /\ tasks' = [tasks EXCEPT ![h] = [IdleTask EXCEPT !.pc = "start",
                                                      !.batch = actions]]
    /\ UNCHANGED <<gameVars, now, calls_left, last, detector, manager, probe>>

\* the event loop runs the task of handler h until it suspends or ends
run_task(h) ==
    /\ tasks[h].pc \in {"start", "loop", "check"}
    /\ LET r == run_coroutine(Fields(state, players, current_round,
                                     game_start_time, last_update_time),
                              tasks[h], now)
       IN /\ state' = r.M.state
          /\ players' = r.M.players
          /\ current_round' = r.M.current_round
          /\ game_start_time' = r.M.game_start_time
          /\ last_update_time' = r.M.last_update_time
          /\ tasks' = [tasks EXCEPT ![h] = r.t]
          /\ last' = Called("process_actions", r.t.raised, tasks[h].batch)
    /\ UNCHANGED <<now, calls_left, detector, manager, probe>>

NextConcurrent ==
    \/ \E h \in Handlers, b \in ConcurrentBatches : receive_text(h, b)
    \/ \E h \in Handlers : run_task(h)
    \/ Tick

SpecConcurrent == InitConcurrent /\ [][NextConcurrent]_vars

(***************************************************************************)
(* A match of up to three players, each of whom punches, two of them also  *)
(* knocking each other out in one batch.  No time passes, so no round ends *)
(* and health changes by combat only.                                      *)
(***************************************************************************)
Hook3 == Item(FullKeys, "player3", "hook", 20)
Uppercut3 == Item(FullKeys, "player3", "uppercut", 80)

CrowdBatches ==
    { <<Hook1>>, <<Hook2>>, <<Hook3>>, <<Uppercut3>>, <<Hook2, Hook3>>,
      <<Uppercut1, Uppercut2>> }

InitCrowd ==
    /\ state = "waiting"
    /\ players = <<>>
    /\ current_round = 1
    /\ game_start_time = None
    /\ last_update_time = None
    /\ now = 1
    /\ calls_left = MaxCrowdCalls
    /\ last = Called("init", FALSE, <<>>)
    /\ AuxIdle

NextCrowd ==
    \/ \E id \in PlayerIds : add_player(id, NameOf(id))
    \/ \E id \in PlayerIds : remove_player(id)
    \/ start_game
    \/ \E b \in CrowdBatches : process_actions(b)

SpecCrowd == InitCrowd /\ [][NextCrowd]_vars

(***************************************************************************)
(* The move classifier (backend/pose_detection.py, PoseDetector).  A pose  *)
(* frame is the numpy array of 33 rows (x, y, confidence), modelled as a   *)
(* function from 0..32 to triples.  A coordinate is the rational           *)
(* x / CoordDen; multiples of 1/4 and their differences are exact in       *)
(* IEEE-754, and none of them equals a threshold of the detectors.         *)
(***************************************************************************)
NumSlots == 33
CoordDen == 4

ZeroTriple == <<0, 0, 0>>

\* one dict of the keypoint list; keys is the set of keys it has
Keypoint(keys, index, x, y, confidence) ==
    [keys |-> keys, index |-> index, x |-> x, y |-> y, confidence |-> confidence]

\* the loop of _normalize_keypoints from entry k on
RECURSIVE normalize_from(_, _, _)
normalize_from(normalized, keypoints, k) ==
    IF k > Len(keypoints) THEN normalized
    ELSE LET kp == keypoints[k]
             idx == IF "index" \in kp.keys THEN kp.index ELSE 0
         IN IF {"x", "y", "confidence"} \subseteq kp.keys
               /\ 0 <= idx /\ idx < NumSlots
            THEN normalize_from([normalized EXCEPT ![idx] =
                                    <<kp.x, kp.y, kp.confidence>>],
                                keypoints, k + 1)
            ELSE normalize_from(normalized, keypoints, k + 1)

\* _normalize_keypoints never overwriting a slot it has written
normalize_keypoints_first_wins(keypoints) ==
    normalize_from([i \in 0..(NumSlots - 1) |-> ZeroTriple],
                   Reverse(keypoints), 1)

normalize_keypoints(keypoints) ==
    normalize_from([i \in 0..(NumSlots - 1) |-> ZeroTriple], keypoints, 1)

\* a classifier function about to be applied to arg
Applying(fn, arg) == [fn |-> fn, arg |-> arg, done |-> FALSE, result |-> <<>>]

\* the match and the handlers as constructed, no call made on the match
MatchIdle ==
    /\ state = "waiting"
    /\ players = <<>>
    /\ current_round = 1
    /\ game_start_time = None
    /\ last_update_time = None
    /\ now = 1
    /\ calls_left = 0
    /\ last = Called("init", FALSE, <<>>)
    /\ tasks = NoTasks

(***************************************************************************)
(* The keypoint normalizer on its own, for every list of up to             *)
(* MaxKeypoints entries with indices inside and outside 0..32, with and    *)
(* without each key, and two different triples.                            *)
(***************************************************************************)
EntryIndices == {-1, 0, 32, 33}
EntryKeys ==
    { {"index", "x", "y", "confidence"}, {"x", "y", "confidence"},
      {"index", "y", "confidence"}, {"index", "x", "y"} }
EntryTriples == { <<1, 2, 3>>, <<4, 3, 2>> }

Entries ==
    { Keypoint(ks, i, t[1], t[2], t[3]) :
         ks \in EntryKeys, i \in EntryIndices, t \in EntryTriples }

KeypointLists == UNION { [1..n -> Entries] : n \in 0..MaxKeypoints }

InitNormalize ==
    /\ MatchIdle
    /\ detector = NewPoseDetector
    /\ manager = NewConnectionManager
    /\ \E kps \in KeypointLists : probe = Applying("_normalize_keypoints", kps)

call_normalize_keypoints ==
    /\ probe.fn = "_normalize_keypoints"
    /\ ~ probe.done
    /\ probe' = [probe EXCEPT !.done = TRUE,
                              !.result = normalize_keypoints(probe.arg)]
    /\ UNCHANGED <<gameVars, now, calls_left, last, tasks, detector, manager>>

NextNormalize == call_normalize_keypoints

SpecNormalize == InitNormalize /\ [][NextNormalize]_vars

(***************************************************************************)
(* _calculate_arm_extension.  A float result is the exact rational         *)
(* num / den.  np.linalg.norm is modelled where it is exact: on            *)
(* differences whose sum of squares is a perfect square.                   *)
(***************************************************************************)
Ratio(num, den) == [num |-> num, den |-> den]

IsSquare(n) == \E r \in 0..n : r * r = n

\* np.linalg.norm(a[:2] - b[:2]), in units of 1/CoordDen
norm(a, b) ==
    LET n == (a[1] - b[1]) * (a[1] - b[1]) + (a[2] - b[2]) * (a[2] - b[2])
    IN CHOOSE r \in 0..n : r * r = n

\* _calculate_arm_extension returning 1.0 for an arm of length 0
calculate_arm_extension_degenerate_full(wrist, elbow, shoulder) ==
    LET wrist_elbow_dist == norm(wrist, elbow)
        elbow_shoulder_dist == norm(elbow, shoulder)
        total_arm_length == wrist_elbow_dist + elbow_shoulder_dist
        straight_dist == norm(wrist, shoulder)
    IN IF total_arm_length > 0
       THEN IF straight_dist < total_arm_length
            THEN Ratio(straight_dist, total_arm_length)
            ELSE Ratio(1, 1)
       ELSE Ratio(1, 1)

calculate_arm_extension(wrist, elbow, shoulder) ==
    LET wrist_elbow_dist == norm(wrist, elbow)
        elbow_shoulder_dist == norm(elbow, shoulder)
        total_arm_length == wrist_elbow_dist + elbow_shoulder_dist
        straight_dist == norm(wrist, shoulder)
    IN IF total_arm_length > 0
       THEN IF straight_dist < total_arm_length
            THEN Ratio(straight_dist, total_arm_length)
            ELSE Ratio(1, 1)
       ELSE Ratio(0, 1)

(***************************************************************************)
(* The helper on its own, for every wrist, elbow and shoulder on the grid  *)
(* 0..MaxCoord whose three distances are whole: arms along an axis in any  *)
(* order of the points, 3-4-5 triangles, and points that coincide.         *)
(***************************************************************************)
ArmPoints == { <<x, y, CoordDen>> : x \in 0..MaxCoord, y \in 0..MaxCoord }

WholeDistance(a, b) ==
    IsSquare((a[1] - b[1]) * (a[1] - b[1]) + (a[2] - b[2]) * (a[2] - b[2]))

Arms ==
    { arm \in ArmPoints \X ArmPoints \X ArmPoints :
         /\ WholeDistance(arm[1], arm[2])
         /\ WholeDistance(arm[2], arm[3])
         /\ WholeDistance(arm[1], arm[3]) }

InitExtension ==
    /\ MatchIdle
    /\ detector = NewPoseDetector
    /\ manager = NewConnectionManager
    /\ \E arm \in Arms : probe = Applying("_calculate_arm_extension", arm)

call_calculate_arm_extension ==
    /\ probe.fn = "_calculate_arm_extension"
    /\ ~ probe.done
    /\ probe' = [probe EXCEPT
          !.done = TRUE,
          !.result = calculate_arm_extension(probe.arg[1], probe.arg[2],
                                             probe.arg[3])]
    /\ UNCHANGED <<gameVars, now, calls_left, last, tasks, detector, manager>>

NextExtension == call_calculate_arm_extension

SpecExtension == InitExtension /\ [][NextExtension]_vars

(***************************************************************************)
(* The seven detectors.  pose_data[idx][0] is the x of a landmark and      *)
(* pose_data[idx][1] its y (tuples here count from 1).  A comparison of    *)
(* a / CoordDen with b / CoordDen + k / 10 is made on whole numbers after  *)
(* multiplying by 10 * CoordDen.                                           *)
(***************************************************************************)
self_keypoints ==
    [nose |-> 0, left_shoulder |-> 11, right_shoulder |-> 12,
     left_elbow |-> 13, right_elbow |-> 14, left_wrist |-> 15,
     right_wrist |-> 16, left_hip |-> 23, right_hip |-> 24,
     left_knee |-> 25, right_knee |-> 26, left_ankle |-> 27,
     right_ankle |-> 28]

Abs(x) == IF x < 0 THEN -x ELSE x

\* float a > b for results of the detectors
Exceeds(a, b) == a.num * b.den > b.num * a.den

\* k / 10 in units of 1 / (10 * CoordDen)
Tenths(k) == k * CoordDen

\* _detect_jab not asking which way the arm points
detect_jab_either_way(pose_data) ==
    LET left_wrist == pose_data[self_keypoints.left_wrist]
        left_elbow == pose_data[self_keypoints.left_elbow]
        left_shoulder == pose_data[self_keypoints.left_shoulder]
        arm_extension == calculate_arm_extension(left_wrist, left_elbow,
                                                 left_shoulder)
    IN IF Exceeds(arm_extension, Ratio(8, 10))
       THEN arm_extension
       ELSE Ratio(0, 1)

detect_jab(pose_data) ==
    LET left_wrist == pose_data[self_keypoints.left_wrist]
        left_elbow == pose_data[self_keypoints.left_elbow]
        left_shoulder == pose_data[self_keypoints.left_shoulder]
        arm_extension == calculate_arm_extension(left_wrist, left_elbow,
                                                 left_shoulder)
        forward_position == left_wrist[1] > left_shoulder[1]
    IN IF Exceeds(arm_extension, Ratio(8, 10)) /\ forward_position
       THEN arm_extension
       ELSE Ratio(0, 1)

detect_cross(pose_data) ==
    LET right_wrist == pose_data[self_keypoints.right_wrist]
        right_elbow == pose_data[self_keypoints.right_elbow]
        right_shoulder == pose_data[self_keypoints.right_shoulder]
        arm_extension == calculate_arm_extension(right_wrist, right_elbow,
                                                 right_shoulder)
        forward_position == right_wrist[1] > right_shoulder[1]
    IN IF Exceeds(arm_extension, Ratio(8, 10)) /\ forward_position
       THEN arm_extension
       ELSE Ratio(0, 1)

detect_hook(pose_data) ==
    LET left_wrist == pose_data[self_keypoints.left_wrist]
        right_wrist == pose_data[self_keypoints.right_wrist]
        left_shoulder == pose_data[self_keypoints.left_shoulder]
        right_shoulder == pose_data[self_keypoints.right_shoulder]
        left_hook ==
            /\ left_wrist[2] > left_shoulder[2]
            /\ 10 * Abs(left_wrist[1] - left_shoulder[1]) > Tenths(3)
        right_hook ==
            /\ right_wrist[2] > right_shoulder[2]
            /\ 10 * Abs(right_wrist[1] - right_shoulder[1]) > Tenths(3)
    IN IF left_hook \/ right_hook THEN Ratio(8, 10) ELSE Ratio(0, 1)

detect_uppercut(pose_data) ==
    LET left_wrist == pose_data[self_keypoints.left_wrist]
        right_wrist == pose_data[self_keypoints.right_wrist]
        left_shoulder == pose_data[self_keypoints.left_shoulder]
        right_shoulder == pose_data[self_keypoints.right_shoulder]
        left_uppercut ==
            /\ left_wrist[2] < left_shoulder[2]
            /\ 10 * left_wrist[1] > 10 * left_shoulder[1] - Tenths(2)
        right_uppercut ==
            /\ right_wrist[2] < right_shoulder[2]
            /\ 10 * right_wrist[1] > 10 * right_shoulder[1] - Tenths(2)
    IN IF left_uppercut \/ right_uppercut THEN Ratio(8, 10) ELSE Ratio(0, 1)

detect_block(pose_data) ==
    LET left_wrist == pose_data[self_keypoints.left_wrist]
        right_wrist == pose_data[self_keypoints.right_wrist]
        left_shoulder == pose_data[self_keypoints.left_shoulder]
        right_shoulder == pose_data[self_keypoints.right_shoulder]
        left_block ==
            /\ left_wrist[2] < left_shoulder[2]
            /\ 10 * Abs(left_wrist[1] - left_shoulder[1]) < Tenths(3)
        right_block ==
            /\ right_wrist[2] < right_shoulder[2]
            /\ 10 * Abs(right_wrist[1] - right_shoulder[1]) < Tenths(3)
    IN IF left_block /\ right_block THEN Ratio(9, 10)
       ELSE IF left_block \/ right_block THEN Ratio(6, 10)
       ELSE Ratio(0, 1)

detect_dodge(pose_data) ==
    LET left_hip == pose_data[self_keypoints.left_hip]
        right_hip == pose_data[self_keypoints.right_hip]
        left_shoulder == pose_data[self_keypoints.left_shoulder]
        right_shoulder == pose_data[self_keypoints.right_shoulder]
        shoulder_movement == Abs(left_shoulder[1] - right_shoulder[1])
        hip_movement == Abs(left_hip[1] - right_hip[1])
    IN IF 10 * shoulder_movement > Tenths(4) \/ 10 * hip_movement > Tenths(4)
       THEN Ratio(7, 10)
       ELSE Ratio(0, 1)

detect_guard(pose_data) ==
    LET left_wrist == pose_data[self_keypoints.left_wrist]
        right_wrist == pose_data[self_keypoints.right_wrist]
        left_elbow == pose_data[self_keypoints.left_elbow]
        right_elbow == pose_data[self_keypoints.right_elbow]
        left_guard ==
            /\ left_wrist[2] > left_elbow[2]
            /\ 10 * left_elbow[2] > 10 * left_wrist[2] - Tenths(3)
        right_guard ==
            /\ right_wrist[2] > right_elbow[2]
            /\ 10 * right_elbow[2] > 10 * right_wrist[2] - Tenths(3)
    IN IF left_guard /\ right_guard THEN Ratio(8, 10) ELSE Ratio(0, 1)

\* self.boxing_moves: the names in the order of the dict
boxing_moves == <<"jab", "cross", "hook", "uppercut", "block", "dodge", "guard">>

\* self.boxing_moves[move_name](pose_data)
detect_func(move_name, pose_data) ==
    CASE move_name = "jab" -> detect_jab(pose_data)
      [] move_name = "cross" -> detect_cross(pose_data)
      [] move_name = "hook" -> detect_hook(pose_data)
      [] move_name = "uppercut" -> detect_uppercut(pose_data)
      [] move_name = "block" -> detect_block(pose_data)
      [] move_name = "dodge" -> detect_dodge(pose_data)
      [] move_name = "guard" -> detect_guard(pose_data)

(***************************************************************************)
(* PoseDetector: initialize, cleanup, is_ready and process_pose.  times[k] *)
(* is what the event-loop clock shows when the loop of process_pose is at  *)
(* the k-th detector.                                                      *)
(***************************************************************************)
\* the object self.mp_pose.Pose(...) returns
Pose == 1

is_ready(d) == d.is_initialized /\ d.pose # None

\* the loop of process_pose from the k-th move on
RECURSIVE detected_from(_, _, _)
detected_from(pose_data, times, k) ==
    IF k > Len(boxing_moves) THEN <<>>
    ELSE LET move_name == boxing_moves[k]
             confidence == detect_func(move_name, pose_data)
         IN IF Exceeds(confidence, Ratio(5, 10))
            THEN <<[move |-> move_name, confidence |-> confidence,
                    timestamp |-> times[k]]>>
                 \o detected_from(pose_data, times, k + 1)
            ELSE detected_from(pose_data, times, k + 1)

\* process_pose returning after the first move it detects
process_pose_first_only(d, keypoints, times) ==
    IF ~ is_ready(d) THEN <<>>
    ELSE LET detected_moves ==
                 detected_from(normalize_keypoints(keypoints), times, 1)
         IN IF detected_moves = <<>> THEN <<>> ELSE <<detected_moves[1]>>

process_pose(d, keypoints, times) ==
    IF ~ is_ready(d) THEN <<>>
    ELSE detected_from(normalize_keypoints(keypoints), times, 1)

(***************************************************************************)
(* The classifier on its own.  A pose is a left arm, a right arm and the   *)
(* hips, sent as eight entries; every arm has whole distances, so the      *)
(* extension ratio is exact.  Coordinates are in units of 1/CoordDen and y *)
(* grows downwards.                                                        *)
(***************************************************************************)
\* wrist, elbow, shoulder of an arm hanging from shoulder (sx, sy), and so on
ArmDown(sx, sy) == << <<sx, sy + 2>>, <<sx, sy + 1>>, <<sx, sy>> >>
ArmStraight(sx, sy) == << <<sx + 2, sy>>, <<sx + 1, sy>>, <<sx, sy>> >>
ArmRaised(sx, sy) == << <<sx, sy - 1>>, <<sx, sy>>, <<sx, sy>> >>
ArmFolded(sx, sy) == << <<sx + 1, sy>>, <<sx + 2, sy>>, <<sx, sy>> >>
ArmSwung(sx, sy) == << <<sx + 4, sy + 3>>, <<sx + 4, sy>>, <<sx, sy>> >>

LeftArms ==
    { ArmDown(0, 1), ArmStraight(0, 1), ArmRaised(0, 1), ArmFolded(0, 1),
      ArmSwung(0, 1) }

RightArms ==
    LeftArms \cup
    { ArmDown(2, 1), ArmStraight(2, 1), ArmRaised(2, 1), ArmFolded(2, 1) }

\* left hip and right hip
Hips == { << <<0, 3>>, <<0, 3>> >>, << <<0, 3>>, <<2, 3>> >> }

\* the entry for landmark index at position xy, seen with confidence 1.0
Landmark(index, xy) ==
    Keypoint({"index", "x", "y", "confidence"}, index, xy[1], xy[2], CoordDen)

PoseKeypoints(left, right, hips) ==
    << Landmark(self_keypoints.left_wrist, left[1]),
       Landmark(self_keypoints.left_elbow, left[2]),
       Landmark(self_keypoints.left_shoulder, left[3]),
       Landmark(self_keypoints.right_wrist, right[1]),
       Landmark(self_keypoints.right_elbow, right[2]),
       Landmark(self_keypoints.right_shoulder, right[3]),
       Landmark(self_keypoints.left_hip, hips[1]),
       Landmark(self_keypoints.right_hip, hips[2]) >>

Poses ==
    { PoseKeypoints(left, right, hips) :
         left \in LeftArms, right \in RightArms, hips \in Hips }

\* the readings of the event-loop clock during one call made at time t
LoopTimes(t) ==
    { times \in [1..Len(boxing_moves) -> t..(t + MaxLoopDelay)] :
         \A k \in 1..(Len(boxing_moves) - 1) : times[k] <= times[k + 1] }

InitClassify ==
    /\ MatchIdle
    /\ detector = NewPoseDetector
    /\ manager = NewConnectionManager
    /\ \E keypoints \in Poses : probe = Applying("process_pose", keypoints)

initialize ==
    /\ detector' = [is_initialized |-> TRUE, pose |-> Pose]
    /\ UNCHANGED <<gameVars, now, calls_left, last, tasks, manager, probe>>

cleanup ==
    /\ detector' = [detector EXCEPT !.is_initialized = FALSE]
    /\ UNCHANGED <<gameVars, now, calls_left, last, tasks, manager, probe>>

call_process_pose ==
    /\ probe.fn = "process_pose"
    /\ ~ probe.done
    /\ \E times \in LoopTimes(now) :
          probe' = [probe EXCEPT
             !.done = TRUE,
             !.result = process_pose(detector, probe.arg, times)]
    /\ UNCHANGED <<gameVars, now, calls_left, last, tasks, detector, manager>>

NextClassify ==
    \/ initialize
    \/ cleanup
    \/ call_process_pose

SpecClassify == InitClassify /\ [][NextClassify]_vars

(***************************************************************************)
(* _detect_jab and _detect_cross on their own (the two classes,            *)
(* backend/pose_detection.py and pose-detection/pose_detector.py, have the *)
(* same code for both).  The arm is every arm of Arms and four bent arms   *)
(* whose extension is exactly 0.8 and 12/13, pointing either way.          *)
(***************************************************************************)
\* wrist, elbow, shoulder of an arm bent at the elbow, seen with confidence 1.0
BentArm(wrist, elbow, shoulder) ==
    << <<wrist[1], wrist[2], CoordDen>>, <<elbow[1], elbow[2], CoordDen>>,
       <<shoulder[1], shoulder[2], CoordDen>> >>

PunchArms ==
    Arms \cup
    { BentArm(<<8, 0>>, <<4, 3>>, <<0, 0>>),
      BentArm(<<0, 0>>, <<4, 3>>, <<8, 0>>),
      BentArm(<<24, 0>>, <<12, 5>>, <<0, 0>>),
      BentArm(<<0, 0>>, <<12, 5>>, <<24, 0>>) }

\* the frame in which only the arm of one side has been seen
ArmFrame(side, arm) ==
    [i \in 0..(NumSlots - 1) |->
        IF side = "left" /\ i = self_keypoints.left_wrist THEN arm[1]
        ELSE IF side = "left" /\ i = self_keypoints.left_elbow THEN arm[2]
        ELSE IF side = "left" /\ i = self_keypoints.left_shoulder THEN arm[3]
        ELSE IF side = "right" /\ i = self_keypoints.right_wrist THEN arm[1]
        ELSE IF side = "right" /\ i = self_keypoints.right_elbow THEN arm[2]
        ELSE IF side = "right" /\ i = self_keypoints.right_shoulder THEN arm[3]
        ELSE ZeroTriple]

InitPunch ==
    /\ MatchIdle
    /\ detector = NewPoseDetector
    /\ manager = NewConnectionManager
    /\ \E arm \in PunchArms :
          \/ probe = Applying("_detect_jab", ArmFrame("left", arm))
          \/ probe = Applying("_detect_cross", ArmFrame("right", arm))

call_detect_jab ==
    /\ probe.fn = "_detect_jab"
    /\ ~ probe.done
    /\ probe' = [probe EXCEPT !.done = TRUE, !.result = detect_jab(probe.arg)]
    /\ UNCHANGED <<gameVars, now, calls_left, last, tasks, detector, manager>>

call_detect_cross ==
    /\ probe.fn = "_detect_cross"
    /\ ~ probe.done
    /\ probe' = [probe EXCEPT !.done = TRUE, !.result = detect_cross(probe.arg)]
    /\ UNCHANGED <<gameVars, now, calls_left, last, tasks, detector, manager>>

NextPunch ==
    \/ call_detect_jab
    \/ call_detect_cross

SpecPunch == InitPunch /\ [][NextPunch]_vars

(***************************************************************************)
(* The camera client (pose-detection/pose_detector.py).  Its detectors are *)
(* the same code as the backend's; it has its own conversion of the        *)
(* keypoints and its own thresholds, one per move.                         *)
(***************************************************************************)
\* move_thresholds with the threshold of block at 0.6
move_thresholds_block_six_tenths ==
    [jab |-> Ratio(7, 10), cross |-> Ratio(7, 10), hook |-> Ratio(6, 10),
     uppercut |-> Ratio(6, 10), block |-> Ratio(6, 10), dodge |-> Ratio(5, 10),
     guard |-> Ratio(5, 10)]

move_thresholds ==
    [jab |-> Ratio(7, 10), cross |-> Ratio(7, 10), hook |-> Ratio(6, 10),
     uppercut |-> Ratio(6, 10), block |-> Ratio(5, 10), dodge |-> Ratio(5, 10),
     guard |-> Ratio(5, 10)]

\* what a call that raised KeyError gives
KeyError == "KeyError"

\* kp['index'], kp['x'], kp['y'] or kp['confidence'] raises KeyError on some
\* entry of the list: one without index, or one in range without a value
keypoints_to_array_raises(keypoints) ==
    \E k \in 1..Len(keypoints) :
       \/ "index" \notin keypoints[k].keys
       \/ /\ 0 <= keypoints[k].index /\ keypoints[k].index < NumSlots
          /\ ~ ({"x", "y", "confidence"} \subseteq keypoints[k].keys)

\* the loop of _keypoints_to_array from entry k on, where nothing raises
RECURSIVE keypoints_to_array_from(_, _, _)
keypoints_to_array_from(pose_data, keypoints, k) ==
    IF k > Len(keypoints) THEN pose_data
    ELSE LET kp == keypoints[k]
             idx == kp.index
         IN IF 0 <= idx /\ idx < NumSlots
            THEN keypoints_to_array_from(
                    [pose_data EXCEPT ![idx] = <<kp.x, kp.y, kp.confidence>>],
                    keypoints, k + 1)
            ELSE keypoints_to_array_from(pose_data, keypoints, k + 1)

keypoints_to_array(keypoints) ==
    keypoints_to_array_from([i \in 0..(NumSlots - 1) |-> ZeroTriple],
                            keypoints, 1)

\* the loop of _detect_boxing_moves from the k-th move on
RECURSIVE client_detected_from(_, _, _)
client_detected_from(pose_data, times, k) ==
    IF k > Len(boxing_moves) THEN <<>>
    ELSE LET move_name == boxing_moves[k]
             confidence == detect_func(move_name, pose_data)
         IN IF Exceeds(confidence, move_thresholds[move_name])
            THEN <<[move |-> move_name, confidence |-> confidence,
                    timestamp |-> times[k]]>>
                 \o client_detected_from(pose_data, times, k + 1)
            ELSE client_detected_from(pose_data, times, k + 1)

detect_boxing_moves(keypoints, times) ==
    IF keypoints_to_array_raises(keypoints) THEN KeyError
    ELSE client_detected_from(keypoints_to_array(keypoints), times, 1)

(***************************************************************************)
(* The pose pipeline.  The client takes the keypoints of a camera frame,   *)
(* detects moves and sends {keypoints, moves} as a "pose_data" message;    *)
(* the backend's process_websocket_message gives the keypoints to          *)
(* process_pose and the events it returns to process_actions.              *)
(***************************************************************************)
\* the dict process_actions is given for one event of process_pose; the event
\* has no player_id key
ActionData(event) ==
    [keys |-> {"move", "confidence", "timestamp"},
     player_id |-> "",
     move |-> event.move,
     confidence |-> (event.confidence.num * ConfDen) \div event.confidence.den,
     timestamp |-> event.timestamp]

ActionsOf(events) == [k \in 1..Len(events) |-> ActionData(events[k])]

PipelinePoses ==
    { PoseKeypoints(left, right, hips) :
         left \in { ArmDown(0, 1), ArmStraight(0, 1), ArmRaised(0, 1) },
         right \in { ArmDown(0, 1), ArmSwung(0, 1), ArmRaised(2, 1) },
         hips \in { << <<0, 3>>, <<0, 3>> >> } }

InitPipeline ==
    /\ state = "waiting"
    /\ players = <<>>
    /\ current_round = 1
    /\ game_start_time = None
    /\ last_update_time = None
    /\ now = 1
    /\ calls_left = MaxPipelineCalls
    /\ last = Called("init", FALSE, <<>>)
    /\ tasks = NoTasks
    /\ detector = NewPoseDetector
    /\ manager = NewConnectionManager
    /\ \E keypoints \in PipelinePoses :
          probe = Applying("_process_frame", keypoints)

\* the client's _process_frame and _send_pose_data on one camera frame
process_frame ==
    /\ probe.fn = "_process_frame"
    /\ \E times \in LoopTimes(now) :
          probe' = Applying("pose_data",
                            [keypoints |-> probe.arg,
                             moves |-> detect_boxing_moves(probe.arg, times)])
    /\ UNCHANGED <<gameVars, now, calls_left, last, tasks, detector, manager>>

\* process_websocket_message on the "pose_data" message
process_websocket_message ==
    /\ probe.fn = "pose_data"
    /\ ~ probe.done
    /\ calls_left > 0
    /\ \E times \in LoopTimes(now) :
          LET actions == process_pose(detector, probe.arg.keypoints, times)
          IN /\ probe' = [probe EXCEPT !.done = TRUE, !.result = actions]
             /\ IF state # "playing"
                THEN /\ last' = Called("process_actions", FALSE,
                                       ActionsOf(actions))
                     /\ UNCHANGED <<gameVars, now>>
                ELSE process_playing(ActionsOf(actions))
    /\ calls_left' = calls_left - 1
    /\ UNCHANGED <<tasks, detector, manager>>

NextPipeline ==
    \/ \E id \in MatchIds : add_player(id, NameOf(id))
    \/ start_game
    \/ initialize
    \/ cleanup
    \/ process_frame
    \/ process_websocket_message

SpecPipeline == InitPipeline /\ [][NextPipeline]_vars

(***************************************************************************)
(* A match that is started once, paused and resumed while time passes.     *)
(* probe is a stopwatch: its result is the time the match has spent in     *)
(* phase playing.                                                          *)
(***************************************************************************)
Stopwatch(played) == [Applying("time_playing", <<>>) EXCEPT !.result = played]

PauseBatches == { <<>>, <<Hook1>> }

InitPause ==
    /\ state = "waiting"
    /\ players = <<>>
    /\ current_round = 1
    /\ game_start_time = None
    /\ last_update_time = None
    /\ now = 1
    /\ calls_left = MaxPauseCalls
    /\ last = Called("init", FALSE, <<>>)
    /\ tasks = NoTasks
    /\ detector = NewPoseDetector
    /\ manager = NewConnectionManager
    /\ probe = Stopwatch(0)

\* the clock advances; the stopwatch runs in phase playing only
pass_time ==
    /\ now + TickStep <= MaxTime
    /\ now' = now + TickStep
    /\ probe' = Stopwatch(probe.result
                          + IF state = "playing" THEN TickStep ELSE 0)
    /\ UNCHANGED <<gameVars, calls_left, last, tasks, detector, manager>>

NextPause ==
    \/ \E id \in MatchIds : add_player_waiting(id)
    \/ start_game_waiting
    \/ pause_game
    \/ resume_game
    \/ \E b \in PauseBatches : process_actions(b)
    \/ pass_time

SpecPause == InitPause /\ [][NextPause]_vars

(***************************************************************************)
(* ConnectionManager (backend/websocket_manager.py).  Every websocket has  *)
(* the handler task of websocket_endpoint, which connects it and, when its *)
(* receive fails, disconnects it.  One more task runs broadcast: the for   *)
(* loop holds an index into active_connections (the list iterator of       *)
(* Python: the next item is the one at the index, if there is one) and the *)
(* task is suspended in each `await websocket.send_text`, where the event  *)
(* loop may run the handlers.                                              *)
(***************************************************************************)
Sockets == 1..MaxSockets

\* self.active_connections.remove(websocket)
Remove(list, websocket) == SelectSeq(list, LAMBDA w : w # websocket)

\* disconnect applied to the manager M
disconnect(M, websocket) ==
    [active_connections |-> Remove(M.active_connections, websocket),
     connection_data |-> M.connection_data \ {websocket}]

\* disconnect applied for each websocket of the list, first to last
RECURSIVE disconnect_each(_, _)
disconnect_each(M, list) ==
    IF list = <<>> THEN M
    ELSE disconnect_each(disconnect(M, Head(list)), Tail(list))

\* the broadcast task before it is started: where it is, the index of the
\* iterator, the websocket it is sending to, its list disconnected, and for
\* the record the list it found at the start, the sends it made and whether
\* a websocket was disconnected by its handler during the send to it
IdleBroadcast ==
    [pc |-> "idle", index |-> 0, websocket |-> 0, disconnected |-> <<>>,
     at_start |-> <<>>, sent_to |-> <<>>, target_left |-> FALSE]

\* the broadcast task B at the head of its for loop, M being the manager: it
\* takes the next websocket and is suspended in the send, or leaves the loop,
\* disconnects the websockets of its list and returns
broadcast_next(M, B) ==
    IF B.index < Len(M.active_connections)
    THEN [M |-> M,
          B |-> [B EXCEPT !.pc = "send",
                          !.websocket = M.active_connections[B.index + 1],
                          !.index = B.index + 1]]
    ELSE [M |-> disconnect_each(M, B.disconnected),
          B |-> [B EXCEPT !.pc = "done", !.websocket = 0]]

InitBroadcast ==
    /\ state = "waiting"
    /\ players = <<>>
    /\ current_round = 1
    /\ game_start_time = None
    /\ last_update_time = None
    /\ now = 1
    /\ calls_left = 0
    /\ last = Called("init", FALSE, <<>>)
    /\ tasks = [handlers |-> [w \in Sockets |-> "new"],
                broadcast |-> IdleBroadcast]
    /\ detector = NewPoseDetector
    /\ manager = NewConnectionManager
    /\ probe = NoProbe

\* websocket_endpoint up to its first receive: manager.connect(websocket)
connect(websocket) ==
    /\ tasks.handlers[websocket] = "new"
    /\ manager' = [active_connections |->
                      Append(manager.active_connections, websocket),
                   connection_data |->
                      manager.connection_data \cup {websocket}]
    /\ tasks' = [tasks EXCEPT !.handlers[websocket] = "open"]
    /\ UNCHANGED <<gameVars, now, calls_left, last, detector, probe>>

\* websocket_endpoint when its receive raises: manager.disconnect(websocket)
handler_disconnects(websocket) ==
    /\ tasks.handlers[websocket] = "open"
    /\ manager' = disconnect(manager, websocket)
    /\ tasks' = [tasks EXCEPT !.handlers[websocket] = "closed",
                             !.broadcast.target_left =
                                 @ \/ (tasks.broadcast.pc = "send"
                                        /\ tasks.broadcast.websocket = websocket)]
    /\ UNCHANGED <<gameVars, now, calls_left, last, detector, probe>>

\* broadcast from its call to its first send
broadcast ==
    /\ tasks.broadcast.pc = "idle"
    /\ LET r == broadcast_next(manager,
                   [IdleBroadcast EXCEPT
                       !.at_start = manager.active_connections])
       IN /\ manager' = r.M
          /\ tasks' = [tasks EXCEPT !.broadcast = r.B]
    /\ UNCHANGED <<gameVars, now, calls_left, last, detector, probe>>

\* the send returns (failed: it raised) and broadcast runs on to its next
\* send or to its end
send_text_returns(failed) ==
    /\ tasks.broadcast.pc = "send"
    /\ LET B == tasks.broadcast
           B1 == [B EXCEPT !.sent_to = Append(@, B.websocket),
                           !.disconnected =
                               IF failed THEN Append(@, B.websocket) ELSE @]
           r == broadcast_next(manager, B1)
       IN /\ manager' = r.M
          /\ tasks' = [tasks EXCEPT !.broadcast = r.B]
    /\ UNCHANGED <<gameVars, now, calls_left, last, detector, probe>>

NextBroadcast ==
    \/ \E w \in Sockets : connect(w)
    \/ \E w \in Sockets : handler_disconnects(w)
    \/ broadcast
    \/ \E failed \in BOOLEAN : send_text_returns(failed)

SpecBroadcast == InitBroadcast /\ [][NextBroadcast]_vars

(***************************************************************************)
(* Properties.                                                             *)
(***************************************************************************)
\* a step that is a call of process_actions made in phase PLAYING
PlayingBatchStep ==
    /\ calls_left' = calls_left - 1
    /\ last'.op = "process_actions"
    /\ state = "playing"

\* the players after the items of the batch of this step, before the checks
AfterItems == run_actions(players, last'.batch, 1, now).players

\* C1: in every reachable state every participant's health is within
\* 0..100, whatever operations were called and whatever the confidences
\* (negative ones and ones above 1 included).
C1_HealthInRange ==
    \A i \in 1..Len(players) :
        players[i].health >= 0 /\ players[i].health <= FullHealth

\* a blow of confidence 4.0 has landed on an opponent already hurt: the
\* attacker scored more than the opponent's whole health, which stopped at 0
C1_Witness ==
    /\ Len(players) >= 2
    /\ \E i, j \in 1..Len(players) :
          /\ players[j].health = 0
          /\ players[i].score > FullHealth + KnockoutBonus

\* C2: when a process_actions call made in PLAYING returns and its items
\* left some participant with health <= 0, the phase is FINISHED after the
\* call and the round-timer check did not run: the round number and the
\* round start are unchanged, no health is reset and no score moved except
\* by the knockout bonus, even when the round duration has elapsed.
C2_KnockoutFinishesTick ==
    [][ ( /\ PlayingBatchStep
          /\ ~ last'.raised
          /\ \E i \in 1..Len(AfterItems) : AfterItems[i].health <= 0 )
        => ( /\ state' = "finished"
             /\ current_round' = current_round
             /\ game_start_time' = game_start_time
             /\ Len(players') = Len(AfterItems)
             /\ \A i \in 1..Len(AfterItems) :
                   /\ players'[i].health = AfterItems[i].health
                   /\ players'[i].score - AfterItems[i].score
                         \in {0, KnockoutBonus} ) ]_vars

\* the fourth call was a batch that knocked a participant out after the
\* round duration had elapsed
C2_Witness ==
    /\ calls_left = MaxCalls - 4
    /\ last.op = "process_actions"
    /\ ~ last.raised
    /\ state = "finished"
    /\ current_round = 1
    /\ last_update_time = now
    /\ now - game_start_time >= round_time
    /\ \E i \in 1..Len(players) : players[i].health = 0

\* C3: a knockout always ends the match: in no state between operations
\* is the phase PLAYING while some participant has health 0.
C3_NoPlayingAtZeroHealth ==
    ~ ( /\ state = "playing"
        /\ \E i \in 1..Len(players) : players[i].health = 0 )

\* the knockout check of this step fires: the call returns and its items
\* left some participant with health <= 0
KnockoutFires ==
    /\ PlayingBatchStep
    /\ ~ last'.raised
    /\ \E i \in 1..Len(AfterItems) : AfterItems[i].health <= 0

\* the participant the knockout check fires for: the first one that is down
KnockedOut ==
    CHOOSE i \in 1..Len(AfterItems) :
        /\ AfterItems[i].health <= 0
        /\ \A j \in 1..(i - 1) : AfterItems[j].health > 0

\* C4: when the knockout check fires for K, exactly one participant has its
\* score changed by the knockout handling: the first participant in
\* registration order other than K, by exactly +50; no health changes.
C4_KnockoutBonus ==
    [][ KnockoutFires
        => LET K == KnockedOut
               changed == {i \in 1..Len(AfterItems) :
                              players'[i].score # AfterItems[i].score}
           IN /\ Len(players') = Len(AfterItems)
              /\ Cardinality(changed) = 1
              /\ \A i \in changed :
                    /\ i # K
                    /\ \A j \in 1..(i - 1) : j = K
                    /\ players'[i].score = AfterItems[i].score + KnockoutBonus
              /\ \A i \in 1..Len(AfterItems) :
                    players'[i].health = AfterItems[i].health ]_vars

\* C5: FINISHED is terminal: once the phase is FINISHED no start, pause,
\* resume, finish or processBatch call changes it (and WAITING is initial).
C5_FinishedIsTerminal ==
    [][ ( /\ state = "finished"
          /\ calls_left' = calls_left - 1
          /\ last'.op \in {"start_game", "pause_game", "resume_game",
                           "end_game", "process_actions"} )
        => state' = "finished" ]_vars

\* a step of the resolver probe, and the item it resolves
ResolveStep ==
    /\ calls_left' = calls_left - 1
    /\ last'.op = "process_single_action"

ProbedItem == last'.batch[1]

\* base damage and block factor (in tenths) as the specification states them
StatedBase(m) ==
    CASE m = "jab" -> 10 [] m = "cross" -> 15 [] m = "hook" -> 20
      [] m = "uppercut" -> 25

StatedFactor(m) ==
    CASE m = "jab" -> 3 [] m = "cross" -> 5 [] m = "hook" -> 7
      [] m = "uppercut" -> 8

\* floor(base * c) and floor(floor(base * c) * f) for the confidence c / ConfDen
StatedDamage(m, c, blocking) ==
    LET plain == (StatedBase(m) * c) \div ConfDen
    IN IF blocking THEN (plain * StatedFactor(m)) \div 10 ELSE plain

\* the two worked examples: JAB at 0.9 against a neutral opponent at health
\* 100, HOOK at 1.0 against a blocking opponent at health 100
StatedExamples ==
    /\ ( /\ ProbedItem.move = "jab" /\ ProbedItem.confidence = 18
         /\ players[2].health = 100
         /\ ~ players[2].is_blocking /\ ~ players[2].is_dodging )
       => players'[2].health = 91 /\ players'[1].score = players[1].score + 9
    /\ ( /\ ProbedItem.move = "hook" /\ ProbedItem.confidence = 20
         /\ players[2].health = 100
         /\ players[2].is_blocking /\ ~ players[2].is_dodging )
       => players'[2].health = 86 /\ players'[1].score = players[1].score + 14

\* C6 as stated: for every punch and every confidence c, the damage against
\* an opponent that is not dodging is floor(base * c), and
\* floor(floor(base * c) * f) when the opponent blocks.
C6_DamageForEveryConfidence ==
    [][ ( /\ ResolveStep
          /\ ProbedItem.move \in Punches
          /\ ~ players[2].is_dodging )
        => /\ last'.damage = StatedDamage(ProbedItem.move, ProbedItem.confidence,
                                          players[2].is_blocking)
           /\ StatedExamples ]_vars

\* C6 amended: the stated damage holds for every confidence c >= 0; for a
\* negative confidence the damage is 0.
C6_DamageFormula ==
    [][ ( /\ ResolveStep
          /\ ProbedItem.move \in Punches
          /\ ~ players[2].is_dodging )
        => /\ last'.damage =
                 IF ProbedItem.confidence >= 0
                 THEN StatedDamage(ProbedItem.move, ProbedItem.confidence,
                                   players[2].is_blocking)
                 ELSE 0
           /\ StatedExamples ]_vars

\* HOOK at 1.0 has been resolved against a blocking opponent at health 100
C6_Witness ==
    /\ last.op = "process_single_action"
    /\ last.batch[1].move = "hook"
    /\ last.batch[1].confidence = 20
    /\ last.damage = 14
    /\ players[2].is_blocking /\ ~ players[2].is_dodging
    /\ players[2].health = 86
    /\ players[1].score = 14

\* C7: a punch against a dodging opponent deals damage 0 for every move kind
\* and confidence, also when the opponent's blocking flag is set as well:
\* the opponent's health and the actor's score are unchanged.
C7_DodgeAvoidsDamage ==
    [][ ( /\ ResolveStep
          /\ ProbedItem.move \in Punches
          /\ players[2].is_dodging )
        => /\ last'.damage = 0
           /\ players'[2].health = players[2].health
           /\ players'[1].score = players[1].score ]_vars

\* an UPPERCUT at 1.0 has been resolved against an opponent with both flags
C7_Witness ==
    /\ last.op = "process_single_action"
    /\ last.batch[1].move = "uppercut"
    /\ last.batch[1].confidence = 20
    /\ players[1].last_move = "uppercut"
    /\ players[2].is_dodging /\ players[2].is_blocking
    /\ players[2].health = FullHealth

Unposed(p) == ~ p.is_blocking /\ ~ p.is_dodging

\* a process_actions step in PLAYING after which the match is still in the
\* same round: neither end-of-tick check acted
QuietBatchStep ==
    /\ PlayingBatchStep
    /\ ~ last'.raised
    /\ state' = "playing"
    /\ current_round' = current_round
    /\ Len(players') = Len(players)

\* C8: a defensive move of a known actor sets that actor's posture (BLOCK:
\* blocking, DODGE: dodging, GUARD: neither), leaves every other posture and
\* every health and score as they were; and in every reachable state no
\* participant is both blocking and dodging.
C8_DefensivePosture ==
    /\ [] ( \A i \in 1..Len(players) :
               ~ (players[i].is_blocking /\ players[i].is_dodging) )
    /\ [][ ( /\ QuietBatchStep
             /\ Len(last'.batch) = 1
             /\ last'.batch[1].move \in Defences
             /\ last'.batch[1].player_id \in Ids(players) )
           => LET m == last'.batch[1].move
                  me == IndexOf(players, last'.batch[1].player_id)
              IN /\ players'[me].is_blocking = (m = "block")
                 /\ players'[me].is_dodging = (m = "dodge")
                 /\ \A i \in 1..Len(players) :
                       /\ players'[i].health = players[i].health
                       /\ players'[i].score = players[i].score
                       /\ i # me =>
                             /\ players'[i].is_blocking = players[i].is_blocking
                             /\ players'[i].is_dodging = players[i].is_dodging
       ]_vars

\* player2 has just dodged in a running match
C8_Witness ==
    /\ last.op = "process_actions"
    /\ last.batch = <<Dodge2>>
    /\ state = "playing"
    /\ last_update_time = now
    /\ \E i \in 1..Len(players) :
          /\ players[i].id = "player2"
          /\ players[i].last_move = "dodge"
          /\ players[i].last_move_time = now
          /\ players[i].is_dodging /\ ~ players[i].is_blocking

\* the items of a batch applied one after the other, left to right
RECURSIVE OneByOne(_, _, _)
OneByOne(ps, batch, t) ==
    IF batch = <<>> THEN ps
    ELSE OneByOne(process_single_action(ps, GameAction(Head(batch), t)).players,
                  Tail(batch), t)

\* C9: process_actions applies the items of a batch in the order given, one
\* after the other, and runs the end-of-tick checks once, after the last
\* item; so the batch [player2 BLOCK, player1 HOOK] costs player2 14 health
\* and the batch [player1 HOOK, player2 BLOCK] costs player2 20.
C9_BatchInOrder ==
    [][ ( PlayingBatchStep /\ ~ last'.raised )
        => /\ LET G == check_game_conditions(
                          Match(state, OneByOne(players, last'.batch, now),
                                current_round, game_start_time), now)
              IN /\ players' = G.players
                 /\ state' = G.state
                 /\ current_round' = G.current_round
           /\ ( /\ QuietBatchStep
                /\ Len(players) = 2
                /\ players[1].id = "player1" /\ players[2].id = "player2"
                /\ Unposed(players[2])
                /\ players[2].health >= 20 )
              => /\ last'.batch = <<Block2, Hook1>>
                      => players'[2].health = players[2].health - 14
                 /\ last'.batch = <<Hook1, Block2>>
                      => players'[2].health = players[2].health - 20
       ]_vars

\* the batch [player2 BLOCK, player1 HOOK] has been applied to a fresh match
C9_Witness ==
    /\ last.op = "process_actions"
    /\ last.batch = <<Block2, Hook1>>
    /\ state = "playing"
    /\ Len(players) = 2
    /\ players[1].id = "player1" /\ players[2].id = "player2"
    /\ players[2].is_blocking
    /\ players[2].health = 86
    /\ players[1].score = 14

\* C10: process_actions called in a phase other than PLAYING changes nothing
\* of the match (phase, round, both timestamps, every participant) and
\* returns normally, whatever the batch, unrecognized move kinds included.
C10_NoOpUnlessPlaying ==
    [][ ( /\ calls_left' = calls_left - 1
          /\ last'.op = "process_actions"
          /\ state # "playing" )
        => /\ ~ last'.raised
           /\ state' = state
           /\ players' = players
           /\ current_round' = current_round
           /\ game_start_time' = game_start_time
           /\ last_update_time' = last_update_time ]_vars

\* a batch holding an unrecognized move was handed to a paused match that
\* never processed a batch
C10_Witness ==
    /\ last.op = "process_actions"
    /\ last.batch = <<Uppercut1, Kick1>>
    /\ ~ last.raised
    /\ state = "paused"
    /\ last_update_time = None
    /\ Len(players) = 2
    /\ \A i \in 1..Len(players) : players[i].health = FullHealth


(***************************************************************************)
(* Starting the match.                                                     *)
(***************************************************************************)
StartStep == calls_left' = calls_left - 1 /\ last'.op = "start_game"

\* C11: start_game called while no player is registered raises its error
\* ("Need at least 1 player to start the game") and leaves the phase, the
\* round, both timestamps and the players as they were.
C11_StartNeedsPlayer ==
    [][ StartStep /\ Len(players) = 0 =>
          /\ last'.raised
          /\ state' = state
          /\ players' = players
          /\ current_round' = current_round
          /\ game_start_time' = game_start_time
          /\ last_update_time' = last_update_time ]_vars

\* a start refused in a match that had been played and then emptied
C11_Witness ==
    /\ last.op = "start_game"
    /\ last.raised
    /\ players = <<>>
    /\ state = "playing"
    /\ game_start_time # None

\* C12: after a start that did not raise (at least one player, whatever was
\* played before) the phase is playing, the round is 1, the start time is the
\* current time, the same players are registered and each has health 100,
\* score 0, neither posture flag set and no last move.
C12_StartResets ==
    [][ StartStep /\ Len(players) >= 1 =>
          /\ ~ last'.raised
          /\ state' = "playing"
          /\ current_round' = 1
          /\ game_start_time' = now
          /\ Len(players') = Len(players)
          /\ \A i \in 1..Len(players) :
                /\ players'[i].id = players[i].id
                /\ players'[i].health = FullHealth
                /\ players'[i].score = 0
                /\ ~ players'[i].is_blocking
                /\ ~ players'[i].is_dodging
                /\ players'[i].last_move = NoMove ]_vars

\* a start after moves were played: a player still carries the time of a move
C12_Witness ==
    /\ last.op = "start_game"
    /\ ~ last.raised
    /\ state = "playing"
    /\ current_round = 1
    /\ game_start_time = now
    /\ \E i \in 1..Len(players) : players[i].last_move_time # None
    /\ \A i \in 1..Len(players) :
          players[i].health = FullHealth /\ players[i].score = 0
          /\ players[i].last_move = NoMove


(***************************************************************************)
(* The end of a round by the timer.                                        *)
(***************************************************************************)
\* a batch processed while playing, no item raising, that leaves nobody at
\* health 0 and finds the round time elapsed
RoundEndStep ==
    /\ PlayingBatchStep
    /\ ~ last'.raised
    /\ \A i \in 1..Len(AfterItems) : AfterItems[i].health > 0
    /\ game_start_time # None
    /\ now - game_start_time >= round_time

\* ps[i] is ranked before ps[j]: higher health, then higher score, then
\* earlier registration
Outranks(ps, i, j) ==
    \/ ps[i].health > ps[j].health
    \/ ps[i].health = ps[j].health /\ ps[i].score > ps[j].score
    \/ ps[i].health = ps[j].health /\ ps[i].score = ps[j].score /\ i < j

TopRanked(ps) ==
    CHOOSE i \in 1..Len(ps) : \A j \in 1..Len(ps) : j # i => Outranks(ps, i, j)

\* the scores after the step are those after the items, with 25 more for w
OnlyBonusTo(w) ==
    /\ Len(players') = Len(AfterItems)
    /\ \A j \in 1..Len(AfterItems) :
          players'[j].score = AfterItems[j].score + (IF j = w THEN RoundBonus ELSE 0)

\* C13 as stated: at a round end by timer with any non-empty set of players
\* exactly one score grows by 25, that of the player ranked first by health,
\* then score, then registration order.
C13_BonusForAnyPlayers ==
    [][ RoundEndStep /\ Len(players) >= 1 =>
          OnlyBonusTo(TopRanked(AfterItems)) ]_vars

\* C13 amended: at a round end by timer with two or more players exactly one
\* score grows by 25, that of the player ranked first by health, then score,
\* then registration order; with fewer than two players no score changes.
C13_BonusForTwoOrMore ==
    [][ RoundEndStep =>
          IF Len(players) >= 2 THEN OnlyBonusTo(TopRanked(AfterItems))
          ELSE OnlyBonusTo(0) ]_vars

\* two rounds won by player2: the first on health, the second, with both at
\* full health, on score although player1 registered earlier
C13_Witness ==
    /\ last.op = "process_actions"
    /\ last.batch = <<>>
    /\ state = "playing"
    /\ current_round = 3
    /\ Len(players) = 2
    /\ players[1].id = "player1" /\ players[1].score = 0
    /\ players[2].id = "player2" /\ players[2].score = 20 + 2 * RoundBonus

\* C14: a round end by timer adds exactly 1 to the round; if the new round
\* exceeds max_rounds the phase becomes finished, otherwise the phase stays
\* playing, every player has health 100 and no posture flag, the start time
\* is the current time, and scores (but for the bonus) and last moves are
\* those the items left.
C14_RoundEndAdvances ==
    [][ RoundEndStep =>
          /\ current_round' = current_round + 1
          /\ IF current_round + 1 > max_rounds
             THEN state' = "finished"
             ELSE /\ state' = "playing"
                  /\ game_start_time' = now
                  /\ Len(players') = Len(AfterItems)
                  /\ \A i \in 1..Len(AfterItems) :
                        /\ players'[i].id = AfterItems[i].id
                        /\ players'[i].health = FullHealth
                        /\ ~ players'[i].is_blocking
                        /\ ~ players'[i].is_dodging
                        /\ players'[i].last_move = AfterItems[i].last_move
                        /\ players'[i].last_move_time = AfterItems[i].last_move_time
                        /\ players'[i].score - AfterItems[i].score \in {0, RoundBonus} ]_vars

\* round 2 begun by a batch in which player2 dodged: the dodge is cleared,
\* its record as last move is kept and the clock restarted
C14_Witness ==
    /\ last.op = "process_actions"
    /\ last.batch = <<Dodge2>>
    /\ state = "playing"
    /\ current_round = 2
    /\ game_start_time = now
    /\ now > 1
    /\ Len(players) = 2
    /\ players[2].id = "player2"
    /\ players[2].last_move = "dodge"
    /\ players[2].last_move_time = now
    /\ ~ players[2].is_dodging
    /\ players[1].score = RoundBonus

(***************************************************************************)
(* Scores.                                                                 *)
(***************************************************************************)
\* every player registered before and after the step has a score at least
\* as large after it
ScoresKept ==
    \A i \in 1..Len(players) : \A j \in 1..Len(players') :
        players'[j].id = players[i].id => players'[j].score >= players[i].score

\* C16: no operation other than start_game, reset and the registration of
\* the same id lowers a player's score: process_actions (with its knockout
\* and round end), pause_game, resume_game, end_game and remove_player leave
\* every remaining player's score equal or larger, and add_player lowers
\* only the score of the id it registers anew.
C16_ScoreNeverDecreases ==
    [][ calls_left' = calls_left - 1 =>
          IF last'.op \in {"start_game", "reset"} THEN TRUE
          ELSE IF last'.op = "add_player"
          THEN \A i \in 1..Len(players) : \A j \in 1..Len(players') :
                  players'[j].id = players[i].id =>
                     \/ players'[j].score >= players[i].score
                     \/ /\ players'[j] = Player(players[i].id, NameOf(players[i].id))
                        /\ \A k \in 1..Len(players) :
                              k # i => players'[k] = players[k]
          ELSE ScoresKept ]_vars

\* player1, with 20 points from a hook, has thrown a jab of negative
\* confidence and still has them
C16_Witness ==
    /\ last.op = "process_actions"
    /\ last.batch = <<NegJab1>>
    /\ state = "playing"
    /\ Len(players) = 2
    /\ players[1].id = "player1"
    /\ players[1].last_move = "jab"
    /\ players[1].score = 20


(***************************************************************************)
(* The round counter.                                                      *)
(***************************************************************************)
\* C15: in every reachable state 1 <= current_round <= max_rounds + 1, and
\* current_round = max_rounds + 1 only while the phase is finished, also
\* after pause_game, resume_game or start_game on a finished match.
C15_RoundInRange ==
    /\ current_round \in 1..(max_rounds + 1)
    /\ current_round = max_rounds + 1 => state = "finished"


(***************************************************************************)
(* Actors and opponents.                                                   *)
(***************************************************************************)
Registered(item) == item.player_id \in Ids(players)

\* the batch without the items of actors that are not registered
KnownItems(batch) == SelectSeq(batch, Registered)

\* C17: an item whose actor is not registered is dropped without error: a
\* batch holding such items (and no unknown move of a registered actor) does
\* not raise and leaves the match exactly as the same batch without them
\* does, so no health, score, posture or last move changes on their account
\* and the items after them are applied.
C17_UnknownActorDropped ==
    [][ ( /\ PlayingBatchStep
          /\ \E k \in 1..Len(last'.batch) : ~ Registered(last'.batch[k])
          /\ \A k \in 1..Len(last'.batch) :
                Registered(last'.batch[k]) => last'.batch[k].move \in MoveType )
        => /\ ~ last'.raised
           /\ LET G == check_game_conditions(
                          Match(state,
                                OneByOne(players, KnownItems(last'.batch), now),
                                current_round, game_start_time), now)
              IN /\ players' = G.players
                 /\ state' = G.state
                 /\ current_round' = G.current_round
                 /\ game_start_time' = G.game_start_time
           /\ KnownItems(last'.batch) = <<>> /\ state' = "playing"
              /\ current_round' = current_round
                 => players' = players
       ]_vars

\* an uppercut of the unregistered actor "ghost" was dropped and the hook of
\* player1 that followed it took 20 from player2
C17_Witness ==
    /\ last.op = "process_actions"
    /\ ~ last.raised
    /\ last.batch = <<GhostUppercut, Hook1>>
    /\ state = "playing"
    /\ current_round = 1
    /\ Len(players) = 2
    /\ players[1].id = "player1" /\ players[2].id = "player2"
    /\ players[1].score = 20 /\ players[1].health = FullHealth
    /\ players[2].score = 0 /\ players[2].health = FullHealth - 20
    /\ players[2].last_move = NoMove

\* C18: a punch of a registered actor in a match of exactly two players
\* takes its damage from the other player and never from the actor; in a
\* match of exactly one player it changes no health and no score and only
\* records the actor's last move and its time.
C18_PunchHitsTheOther ==
    [][ ( /\ QuietBatchStep
          /\ Len(last'.batch) = 1
          /\ last'.batch[1].move \in Punches
          /\ Registered(last'.batch[1]) )
        => LET it == last'.batch[1]
               me == IndexOf(players, it.player_id)
               recorded == [players[me] EXCEPT !.last_move = it.move,
                                               !.last_move_time = now]
           IN /\ Len(players) = 1 => players' = <<recorded>>
              /\ Len(players) = 2 =>
                   LET opp == 3 - me
                       d == players[opp].health - players'[opp].health
                   IN /\ d = calculate_damage(it.move, it.confidence, players[opp])
                      /\ players'[opp] = [players[opp] EXCEPT !.health = @ - d]
                      /\ players'[me] = [recorded EXCEPT !.score = @ + d]
       ]_vars

\* the only player of a running match has thrown a hook
C18_Witness ==
    /\ last.op = "process_actions"
    /\ last.batch = <<Hook1>>
    /\ state = "playing"
    /\ Len(players) = 1
    /\ players[1].id = "player1"
    /\ players[1].last_move = "hook"
    /\ players[1].last_move_time = now
    /\ players[1].health = FullHealth
    /\ players[1].score = 0

\* C19: a punch resolved with computed damage d >= 0 against an opponent of
\* health h leaves the opponent at max(0, h - d) and adds exactly d to the
\* actor's score, the whole of d also when d exceeds h.
C19_FullDamageScored ==
    [][ ( ResolveStep /\ ProbedItem.move \in Punches )
        => LET d == last'.damage
               h == players[2].health
           IN /\ d >= 0
              /\ players'[2].health = (IF h - d > 0 THEN h - d ELSE 0)
              /\ players'[1].score = players[1].score + d
              /\ players'[1].health = players[1].health
              /\ players'[2].score = players[2].score
       ]_vars

\* an uppercut at confidence 1.5 against an unposed opponent of health 10:
\* 37 points for 10 of health
C19_Witness ==
    /\ last.op = "process_single_action"
    /\ last.batch[1].move = "uppercut"
    /\ last.damage = 37
    /\ players[2].health = 0
    /\ players[1].score = 37

(***************************************************************************)
(* Unknown moves.                                                          *)
(***************************************************************************)
\* C20: a process_actions call that fails on an item of a registered actor
\* whose move is none of the seven move values leaves the match as it was
\* before the call: the players (effects of earlier items of the batch
\* included), the phase, the round and both timestamps.
C20_FailedBatchChangesNothing ==
    [][ ( /\ calls_left' = calls_left - 1
          /\ last'.op = "process_actions"
          /\ last'.raised )
        => /\ players' = players
           /\ state' = state
           /\ current_round' = current_round
           /\ game_start_time' = game_start_time
           /\ last_update_time' = last_update_time
       ]_vars


(***************************************************************************)
(* The spelling of move kinds.                                             *)
(***************************************************************************)
\* str.lower() on the spellings above
LowerCase(m) ==
    CASE m \in {"JAB", "Jab"} -> "jab"
      [] m \in {"CROSS", "Cross"} -> "cross"
      [] m \in {"HOOK", "Hook"} -> "hook"
      [] m \in {"UPPERCUT", "Uppercut"} -> "uppercut"
      [] m \in {"BLOCK", "Block"} -> "block"
      [] m \in {"DODGE", "Dodge"} -> "dodge"
      [] m \in {"GUARD", "Guard"} -> "guard"
      [] OTHER -> m

\* C21: move kinds are matched without regard to case: an item whose move is
\* one of the seven kinds in upper case ("JAB") or capitalised ("Jab") does
\* not raise and changes the players exactly as the same item with the move
\* in lower case ("jab") does.
C21_CaseInsensitiveMoves ==
    [][ ( /\ ResolveStep
          /\ ProbedItem.move \in UpperSpellings \cup TitleSpellings )
        => LET lower == [ProbedItem EXCEPT !.move = LowerCase(@)]
           IN /\ ~ last'.raised
              /\ players' = process_single_action(players,
                                                  GameAction(lower, now)).players
       ]_vars


(***************************************************************************)
(* Pause, resume and registration.                                         *)
(***************************************************************************)
CallStep(op) == calls_left' = calls_left - 1 /\ last'.op = op

\* C22: pause_game sets the phase to paused from whatever phase the match is
\* in (waiting, playing, paused or finished) and changes nothing else.
C22_PauseFromAnyPhase ==
    [][ CallStep("pause_game") =>
          /\ state' = "paused"
          /\ ~ last'.raised
          /\ UNCHANGED <<players, current_round, game_start_time,
                         last_update_time>> ]_vars

\* a match finished by a knockout has been paused
C22_Witness ==
    /\ last.op = "pause_game"
    /\ state = "paused"
    /\ Len(players) = 2
    /\ players[2].health = 0
    /\ players[1].score = FullHealth + KnockoutBonus

\* C23: resume_game sets the phase to playing only when the phase is paused;
\* called in waiting, playing or finished it leaves the whole match as it is.
C23_ResumeOnlyFromPaused ==
    [][ CallStep("resume_game") =>
          /\ state' = (IF state = "paused" THEN "playing" ELSE state)
          /\ ~ last'.raised
          /\ UNCHANGED <<players, current_round, game_start_time,
                         last_update_time>> ]_vars

\* a finished match on which resume_game was called is still finished
C23_Witness ==
    /\ last.op = "resume_game"
    /\ state = "finished"
    /\ Len(players) = 2
    /\ players[2].health = 0

FreshPlayer(p) ==
    /\ p.health = FullHealth
    /\ p.score = 0
    /\ ~ p.is_blocking /\ ~ p.is_dodging
    /\ p.last_move = NoMove

\* C24: right after add_player(id, name), in any phase and whether or not id
\* was registered, exactly one player has that id and it has health 100,
\* score 0, no posture and no last move; the other players and the rest of
\* the match are as before; registering a registered id keeps the number of
\* players and the place of that id, registering a new id adds one player.
C24_RegisterGivesFreshPlayer ==
    [][ CallStep("add_player") =>
          LET id == last'.player_id
          IN /\ Cardinality({k \in 1..Len(players') : players'[k].id = id}) = 1
             /\ FreshPlayer(players'[IndexOf(players', id)])
             /\ IF id \in Ids(players)
                THEN /\ Len(players') = Len(players)
                     /\ IndexOf(players', id) = IndexOf(players, id)
                ELSE /\ Len(players') = Len(players) + 1
                     /\ IndexOf(players', id) = Len(players')
             /\ \A k \in 1..Len(players) :
                   players[k].id # id => players'[k] = players[k]
             /\ UNCHANGED <<state, current_round, game_start_time,
                            last_update_time>> ]_vars

\* player2, hit by a hook of player1 during the match, has been registered
\* again and is back at health 100; player1 keeps the 20 points
C24_Witness ==
    /\ last.op = "add_player"
    /\ last.player_id = "player2"
    /\ state = "playing"
    /\ Len(players) = 2
    /\ players[1].id = "player1" /\ players[1].score = 20
    /\ players[2] = Player("player2", NameOf("player2"))

(***************************************************************************)
(* Time.                                                                   *)
(***************************************************************************)
\* C25: the passage of time alone changes nothing in the match; the round
\* grows only inside process_actions; and one process_actions call, however
\* long after the round's start it comes, adds at most 1 to the round.
C25_OneRoundPerBatch ==
    [][ /\ now' # now => UNCHANGED gameVars
        /\ current_round' > current_round =>
              /\ CallStep("process_actions")
              /\ current_round' = current_round + 1 ]_vars

\* the only batch after the hook thrown at the start of the match arrived two
\* round times later and ended one round
C25_Witness ==
    /\ last.op = "process_actions"
    /\ calls_left = MaxMatchCalls - 4
    /\ Len(players) = 1
    /\ players[1].last_move_time = 1
    /\ now = 1 + 2 * round_time
    /\ game_start_time = now
    /\ state = "playing"
    /\ current_round = 2


(***************************************************************************)
(* The end of the match.                                                   *)
(***************************************************************************)
\* the match has just been started, and the calls left suffice for the
\* batches of max_rounds rounds
Started ==
    /\ last.op = "start_game"
    /\ ~ last.raised
    /\ calls_left >= max_rounds + 1

C27_CallsRunToCompletion ==
    [][ \A h \in Handlers :
          ( tasks[h].pc # "idle" /\ tasks'[h] # tasks[h] )
          => /\ tasks[h].pc = "start"
             /\ tasks'[h].pc = "done"
             /\ \A g \in Handlers : g # h => tasks'[g] = tasks[g]
             /\ IF state # "playing" THEN UNCHANGED gameVars
                ELSE process_playing(tasks[h].batch) ]_vars

\* both handlers have finished, one with [player2 BLOCK, player1 HOOK] and
\* the other with [player2 GUARD]; the hook landed on the block and the
\* guard came after it
C27_Witness ==
    /\ \A h \in Handlers : tasks[h].pc = "done"
    /\ \E h \in Handlers : tasks[h].batch = <<Block2, Hook1>>
    /\ \E h \in Handlers : tasks[h].batch = <<Guard2>>
    /\ last.batch = <<Guard2>>
    /\ players[2].health = FullHealth - 14
    /\ ~ players[2].is_blocking
    /\ players[2].last_move = "guard"


(***************************************************************************)
(* The keypoint normalizer.                                                *)
(***************************************************************************)
Normalized == probe.fn = "_normalize_keypoints" /\ probe.done

\* the entries of the list that have x, y and confidence
HasTriple(kp) == {"x", "y", "confidence"} \subseteq kp.keys

\* slot i of frame is the triple of the last entry of kps in the set of
\* positions S, the zero triple when S is empty
HoldsLastOf(frame, kps, i, S) ==
    frame[i] = IF S = {} THEN ZeroTriple
               ELSE LET k == CHOOSE m \in S : \A n \in S : n <= m
                    IN <<kps[k].x, kps[k].y, kps[k].confidence>>

Extended == probe.fn = "_calculate_arm_extension" /\ probe.done

\* position (x, y) of a point, the confidence left out
Position(point) == <<point[1], point[2]>>

\* C30: for all wrist, elbow and shoulder positions the helper returns
\* distance(wrist, shoulder) / (distance(wrist, elbow) +
\* distance(elbow, shoulder)), a value in [0, 1], and exactly 0 when the
\* three points coincide.
C30_ExtensionInUnitRange ==
    Extended =>
       LET wrist == probe.arg[1]
           elbow == probe.arg[2]
           shoulder == probe.arg[3]
           total == norm(wrist, elbow) + norm(elbow, shoulder)
       IN /\ probe.result.den > 0
          /\ 0 <= probe.result.num
          /\ probe.result.num <= probe.result.den
          /\ total > 0 =>
                probe.result.num * total = norm(wrist, shoulder) * probe.result.den
          /\ (Position(wrist) = Position(elbow)
                /\ Position(elbow) = Position(shoulder)) =>
                probe.result.num = 0

\* the helper has been applied to three points that coincide
C30_Witness ==
    /\ Extended
    /\ probe.arg = <<<<2, 3, CoordDen>>, <<2, 3, CoordDen>>, <<2, 3, CoordDen>>>>
    /\ probe.result = Ratio(0, 1)


(***************************************************************************)
(* The classifier.                                                         *)
(***************************************************************************)
\* a step that is one call of process_pose
ClassifyStep == probe.fn = "process_pose" /\ ~ probe.done /\ probe'.done

\* moves is, in the order jab, cross, hook, uppercut, block, dodge, guard,
\* exactly the detectors whose confidence on frame exceeds 0.5, each with
\* that confidence and a reading of the clock taken during the call, which
\* began at time t
ExactlyTheFiring(moves, frame, t) ==
    LET firing == SelectSeq(boxing_moves,
                     LAMBDA m : Exceeds(detect_func(m, frame), Ratio(1, 2)))
    IN /\ Len(moves) = Len(firing)
       /\ \A k \in 1..Len(firing) :
             /\ DOMAIN moves[k] = {"move", "confidence", "timestamp"}
             /\ moves[k].move = firing[k]
             /\ moves[k].confidence = detect_func(firing[k], frame)
             /\ moves[k].timestamp >= t
             /\ moves[k].timestamp <= t + MaxLoopDelay
       /\ (Exceeds(detect_block(frame), Ratio(1, 2))
             /\ Exceeds(detect_dodge(frame), Ratio(1, 2))) =>
             \E i, j \in 1..Len(moves) :
                i < j /\ moves[i].move = "block" /\ moves[j].move = "dodge"

\* C28 as stated: for every pose frame the classifier returns exactly the
\* detectors whose confidence exceeds 0.5, each with its confidence and a
\* timestamp, in the order jab, cross, hook, uppercut, block, dodge, guard;
\* BLOCK and DODGE firing on one frame are both returned, BLOCK first.
C28_ReturnsAllFiringMoves ==
    [][ClassifyStep =>
          ExactlyTheFiring(probe'.result, normalize_keypoints(probe.arg), now)]_vars

\* C28 amended: the same while the detector is ready (initialized and not
\* cleaned up since); a detector that is not ready returns no move for any
\* frame.
C28_ReturnsAllFiringMovesWhenReady ==
    [][ClassifyStep =>
          IF is_ready(detector)
          THEN ExactlyTheFiring(probe'.result, normalize_keypoints(probe.arg),
                                now)
          ELSE probe'.result = <<>>]_vars

\* both arms raised with the shoulders apart: UPPERCUT, BLOCK and DODGE are
\* returned from one frame, BLOCK before DODGE
C28_Witness ==
    /\ probe.fn = "process_pose"
    /\ probe.done
    /\ probe.arg = PoseKeypoints(ArmRaised(0, 1), ArmRaised(2, 1),
                                 << <<0, 3>>, <<0, 3>> >>)
    /\ Len(probe.result) = 3
    /\ probe.result[1].move = "uppercut"
    /\ probe.result[2].move = "block"
    /\ probe.result[2].confidence = Ratio(9, 10)
    /\ probe.result[3].move = "dodge"
    /\ probe.result[3].confidence = Ratio(7, 10)


(***************************************************************************)
(* The JAB and CROSS detectors.                                            *)
(***************************************************************************)
Punched == probe.fn \in {"_detect_jab", "_detect_cross"} /\ probe.done

\* the wrist, elbow and shoulder the detector just applied looks at
PunchArm ==
    IF probe.fn = "_detect_jab"
    THEN << probe.arg[self_keypoints.left_wrist],
            probe.arg[self_keypoints.left_elbow],
            probe.arg[self_keypoints.left_shoulder] >>
    ELSE << probe.arg[self_keypoints.right_wrist],
            probe.arg[self_keypoints.right_elbow],
            probe.arg[self_keypoints.right_shoulder] >>

\* the elbow lies on the segment from shoulder to wrist, which has a length
FullyExtended(arm) ==
    /\ norm(arm[1], arm[3]) > 0
    /\ norm(arm[1], arm[2]) + norm(arm[2], arm[3]) = norm(arm[1], arm[3])

BackendStep == probe.fn = "pose_data" /\ ~ probe.done /\ probe'.done

\* the same moves with the same confidences, in the same order
SameMoves(a, b) ==
    /\ Len(a) = Len(b)
    /\ \A k \in 1..Len(a) :
          a[k].move = b[k].move /\ a[k].confidence = b[k].confidence

\* C32 as stated: the backend's process_pose and the client's
\* _detect_boxing_moves return the same sequence of move kinds and
\* confidences for every well-formed pose frame.
C32_ClassifiersAgree ==
    [][BackendStep => SameMoves(probe.arg.moves, probe'.result)]_vars

\* C32 amended: they do whenever the backend's classifier is ready; one that
\* is not ready returns no move whatever the client detected.
C32_ClassifiersAgreeWhenReady ==
    [][BackendStep =>
          IF is_ready(detector)
          THEN SameMoves(probe.arg.moves, probe'.result)
          ELSE probe'.result = <<>>]_vars

\* one arm raised: both classifiers returned UPPERCUT at 0.8 and BLOCK at 0.6,
\* the value closest to a threshold
C32_Witness ==
    /\ probe.fn = "pose_data"
    /\ probe.done
    /\ Len(probe.result) = 2
    /\ probe.result[2].move = "block"
    /\ probe.result[2].confidence = Ratio(6, 10)
    /\ SameMoves(probe.arg.moves, probe.result)


(***************************************************************************)
(* Moves that arrive through the pose pipeline.                            *)
(***************************************************************************)
\* a step in which the backend handles a "pose_data" message in phase PLAYING
PoseStep == BackendStep /\ state = "playing"

\* the batch with every item signed by "player1"
SignedPlayer1(batch) ==
    [k \in 1..Len(batch) |->
        [batch[k] EXCEPT !.keys = @ \cup {"player_id"}, !.player_id = "player1"]]

\* C37: a batch item without player_id is applied as a move of "player1";
\* every event of the classifier is such an item, so the moves of a pose
\* message act for "player1" (the match ends up as after the same moves
\* signed by "player1"), and they are dropped, changing no participant, when
\* "player1" is not registered.
C37_PoseMovesActForPlayer1 ==
    [][PoseStep =>
          /\ Len(last'.batch) = Len(probe'.result)
          /\ \A k \in 1..Len(probe'.result) :
                /\ DOMAIN probe'.result[k] = {"move", "confidence", "timestamp"}
                /\ "player_id" \notin last'.batch[k].keys
                /\ last'.batch[k].move = probe'.result[k].move
          /\ ~ last'.raised
          /\ LET G == check_game_conditions(
                         Match(state,
                               OneByOne(players, SignedPlayer1(last'.batch), now),
                               current_round, game_start_time), now)
             IN /\ players' = G.players
                /\ state' = G.state
                /\ current_round' = G.current_round
          /\ "player1" \notin Ids(players) => players' = players
          /\ \A i \in 1..Len(players) :
                players[i].id # "player1" =>
                   players'[i].last_move = players[i].last_move]_vars

\* the left arm straight forward was seen while player1 and player2 were
\* playing: the JAB of confidence 1.0 took 10 from player2 for player1
C37_Witness ==
    /\ probe.fn = "pose_data"
    /\ probe.done
    /\ Len(probe.result) >= 1
    /\ probe.result[1].move = "jab"
    /\ state = "playing"
    /\ Len(players) = 2
    /\ players[1].id = "player1" /\ players[2].id = "player2"
    /\ players[1].last_move # NoMove
    /\ players[1].score = FullHealth - players[2].health
    /\ players[2].health < FullHealth
    /\ players[2].last_move = NoMove


(***************************************************************************)
(* Three or more participants.                                             *)
(***************************************************************************)
\* the place in the dict of the first participant other than players[me]
FirstOther(me) == IF me = 1 THEN 2 ELSE 1

\* C33: with three or more participants the opponent of a punch is the
\* first-registered participant other than the actor, so a punch changes no
\* health but that one's, only the first two participants lose health, and
\* the health of a third or later participant is never below 100.
C33_CrowdHitsFirstOther ==
    /\ [](Len(players) >= 3 =>
            \A i \in 3..Len(players) : players[i].health = FullHealth)
    /\ [][ ( /\ PlayingBatchStep
             /\ Len(players) >= 3
             /\ Len(last'.batch) = 1
             /\ Registered(last'.batch[1]) )
           => LET me == IndexOf(players, last'.batch[1].player_id)
              IN /\ players'[FirstOther(me)].health < players[FirstOther(me)].health
                    \/ players[FirstOther(me)].health = 0
                 /\ \A i \in 1..Len(players) :
                       i # FirstOther(me) =>
                          players'[i].health = players[i].health ]_vars

\* player3, registered last of three, threw a hook: it took 20 from player1,
\* the first registered, and nothing from player2
C33_Witness ==
    /\ last.op = "process_actions"
    /\ last.batch = <<Hook3>>
    /\ Len(players) = 3
    /\ players[1].id = "player1" /\ players[1].health = FullHealth - 20
    /\ players[2].id = "player2" /\ players[2].health = FullHealth
    /\ players[3].id = "player3" /\ players[3].health = FullHealth
    /\ players[3].score = 20


(***************************************************************************)
(* Playing means started.                                                  *)
(***************************************************************************)
\* C34: whenever the phase is playing the match was started: game_start_time
\* is set and at least one participant is registered, after any sequence of
\* add_player, remove_player, start_game, pause_game, resume_game, end_game
\* and process_actions calls.
C34_PlayingMeansStarted ==
    state = "playing" => game_start_time # None /\ Len(players) >= 1


(***************************************************************************)
(* The winner of a knockout.                                               *)
(***************************************************************************)
\* C35: the participant given the knockout bonus has health above 0 when it
\* is given; when both participants of a two-player match are brought to
\* health 0 within one batch, none with health 0 is made the winner.
C35_KnockoutWinnerStands ==
    [][ KnockoutFires
        => \A i \in 1..Len(AfterItems) :
              players'[i].score = AfterItems[i].score + KnockoutBonus
                 => AfterItems[i].health > 0 ]_vars


(***************************************************************************)
(* Paused time.                                                            *)
(***************************************************************************)
\* a step in which process_actions ends the first round of the match
FirstRoundEnds ==
    /\ PlayingBatchStep
    /\ current_round = 1
    /\ current_round' = 2

\* C36: time spent in phase paused does not count towards the round: after
\* pause_game and resume_game the round ends only once the time spent in
\* phase playing since the round started has reached round_time.
C36_PausedTimeNotCounted ==
    [][FirstRoundEnds => probe.result >= round_time]_vars


(***************************************************************************)
(* Broadcast.                                                              *)
(***************************************************************************)
Range(q) == { q[k] : k \in 1..Len(q) }

\* C38: broadcast attempts a send to every connection that is active when it
\* starts and stays connected until it ends, also when a handler disconnects
\* another connection while the broadcast is suspended in a send; and
\* exactly the connections whose send failed are removed at its end.
C38_BroadcastReachesAll ==
    (tasks.broadcast.pc = "done" /\ ~tasks.broadcast.target_left) =>
       /\ \A w \in Range(tasks.broadcast.at_start) :
             tasks.handlers[w] = "open" => w \in Range(tasks.broadcast.sent_to)
       /\ \A w \in Range(tasks.broadcast.disconnected) :
             w \notin Range(manager.active_connections)
       /\ \A w \in Sockets :
             (tasks.handlers[w] = "open"
                /\ w \notin Range(tasks.broadcast.disconnected))
                => w \in Range(manager.active_connections)

====
